---- MODULE Spec2Model ----
(***************************************************************************)
(* Model of the Markdown -> TipTap JSON converter of sage-base             *)
(* (backend/app/services/document_processor.py).                           *)
(*                                                                         *)
(* Strings are sequences of one-character strings; Python indices are kept *)
(* 0-based as in the source (Slice(s, a, b) is s[a:b]).  A TipTap node is  *)
(* a record with the same keys as the dict the code builds.  The Python    *)
(* value None of current_code_block is the empty tuple NoneVal, a list     *)
(* value b is <<b>>.                                                       *)
(***************************************************************************)
EXTENDS Integers, Sequences, FiniteSets, TLC

(***************************************************************************)
(* Bounds of the model.                                                    *)
(***************************************************************************)
MaxLines == 2
MaxDepth == 3
MaxTableLines == 3
MaxTokens == 2
MaxListLines == 3
MaxHashes == 4
MaxOddLines == 2

MaxFenced == 1

MaxCalls == 3

MaxVersion == 3

MaxUpdateRequests == 1

(***************************************************************************)
(* Python str primitives.                                                  *)
(***************************************************************************)
Whitespace == {" ", "\t", "\n", "\r", "\f"}

\* the backquote character (it cannot be written inside a TLA+ string)
Backtick == "BACKTICK"

Digits == {"0", "1", "2", "3", "4", "5", "6", "7", "8", "9"}

\* s[a:b] for 0 <= a, 0 <= b (Python clamps b to len(s))
Slice(s, a, b) == SubSeq(s, a + 1, IF b < Len(s) THEN b ELSE Len(s))

StartsWithAt(s, p, lit) == p + Len(lit) <= Len(s) /\ SubSeq(s, p + 1, p + Len(lit)) = lit

StartsWith(s, lit) == StartsWithAt(s, 0, lit)

EndsWith(s, lit) == Len(lit) <= Len(s) /\ SubSeq(s, Len(s) - Len(lit) + 1, Len(s)) = lit

Contains(s, lit) == \E p \in 0..(Len(s) - Len(lit)) : StartsWithAt(s, p, lit)

Find(s, lit) == CHOOSE p \in 0..(Len(s) - Len(lit)) : StartsWithAt(s, p, lit) /\ \A q \in 0..(p - 1) : ~StartsWithAt(s, q, lit)

\* exclusive end of the longest run of characters outside Excl that starts at q
RunEnd(s, q, Excl) ==
    IF q >= Len(s) THEN q
    ELSE CHOOSE e \in q..Len(s) : (\A k \in (q + 1)..e : s[k] \notin Excl) /\ (e = Len(s) \/ s[e + 1] \in Excl)

LStrip(s) ==
    LET n == IF Len(s) = 0 THEN 0
             ELSE CHOOSE e \in 0..Len(s) : (\A k \in 1..e : s[k] \in Whitespace) /\ (e = Len(s) \/ s[e + 1] \notin Whitespace)
    IN  Slice(s, n, Len(s))

RStrip(s) ==
    LET n == IF Len(s) = 0 THEN 0
             ELSE CHOOSE e \in 0..Len(s) : (\A k \in (e + 1)..Len(s) : s[k] \in Whitespace) /\ (e = 0 \/ s[e] \notin Whitespace)
    IN  SubSeq(s, 1, n)

Strip(s) == RStrip(LStrip(s))

\* the 1-based position of the k-th occurrence of the character c in s (0 for k = 0, Len(s) + 1 past the last)
NthSep(s, c, k) ==
    IF k = 0 THEN 0
    ELSE IF k > Cardinality({p \in 1..Len(s) : s[p] = c}) THEN Len(s) + 1
    ELSE CHOOSE p \in 1..Len(s) : s[p] = c /\ Cardinality({q \in 1..p : s[q] = c}) = k

\* s.split(c) for a one-character separator c
Split(s, c) ==
    [k \in 1..(Cardinality({p \in 1..Len(s) : s[p] = c}) + 1) |->
        SubSeq(s, NthSep(s, c, k - 1) + 1, NthSep(s, c, k) - 1)]

RECURSIVE JoinFrom(_, _, _)
JoinFrom(parts, k, sep) ==
    IF k > Len(parts) THEN <<>>
    ELSE IF k = Len(parts) THEN parts[k]
    ELSE parts[k] \o sep \o JoinFrom(parts, k + 1, sep)

\* sep.join(parts)
Join(parts, sep) == JoinFrom(parts, 1, sep)

(***************************************************************************)
(* _parse_inline_formatting: the regular expression.                       *)
(* A match is [alt, start, end, g2, g3]: the alternative 1..7 that         *)
(* matched (0: no match), match.start(), match.end(), and groups 2 and 3   *)
(* (they take part in alternative 1 only).  Every alternative is a fixed   *)
(* opener, a greedy run of a negated class and a closer whose first        *)
(* character is in the negated set, so the greedy run never backtracks.    *)
(***************************************************************************)
NoMatch == [alt |-> 0, start |-> 0, end |-> 0, g2 |-> <<>>, g3 |-> <<>>]

\* opener [^x]+ closer, tried at position p
DelimitedAt(s, p, alt, open, x, close) ==
    IF ~StartsWithAt(s, p, open) THEN NoMatch
    ELSE LET q == p + Len(open)
             e == RunEnd(s, q, {x})
         IN  IF e > q /\ StartsWithAt(s, e, close)
               THEN [alt |-> alt, start |-> p, end |-> e + Len(close), g2 |-> <<>>, g3 |-> <<>>]
               ELSE NoMatch

\* (\[([^\]]+)\]\(([^)]+)\))
LinkAt(s, p) ==
    IF ~StartsWithAt(s, p, <<"[">>) THEN NoMatch
    ELSE LET e1 == RunEnd(s, p + 1, {"]"})
         IN  IF ~(e1 > p + 1 /\ StartsWithAt(s, e1, <<"]", "(">>)) THEN NoMatch
             ELSE LET e2 == RunEnd(s, e1 + 2, {")"})
                  IN  IF e2 > e1 + 2 /\ StartsWithAt(s, e2, <<")">>)
                        THEN [alt |-> 1, start |-> p, end |-> e2 + 1,
                              g2 |-> Slice(s, p + 1, e1), g3 |-> Slice(s, e1 + 2, e2)]
                        ELSE NoMatch

UrlStop == Whitespace \cup {"<", ">", ")"}

\* (https?://[^\s<>)]+|www\.[^\s<>)]+)
AutolinkAt(s, p) ==
    LET q == IF StartsWithAt(s, p, <<"h", "t", "t", "p", "s", ":", "/", "/">>) THEN p + 8
             ELSE IF StartsWithAt(s, p, <<"h", "t", "t", "p", ":", "/", "/">>) THEN p + 7
             ELSE IF StartsWithAt(s, p, <<"w", "w", "w", ".">>) THEN p + 4
             ELSE -1
    IN  IF q = -1 THEN NoMatch
        ELSE LET e == RunEnd(s, q, UrlStop)
             IN  IF e > q THEN [alt |-> 2, start |-> p, end |-> e, g2 |-> <<>>, g3 |-> <<>>]
                 ELSE NoMatch

AltAt(alt, s, p) ==
    CASE alt = 1 -> LinkAt(s, p)
      [] alt = 2 -> AutolinkAt(s, p)
      [] alt = 3 -> DelimitedAt(s, p, 3, <<Backtick>>, Backtick, <<Backtick>>)
      [] alt = 4 -> DelimitedAt(s, p, 4, <<"=", "=">>, "=", <<"=", "=">>)
      [] alt = 5 -> DelimitedAt(s, p, 5, <<"~", "~">>, "~", <<"~", "~">>)
      [] alt = 6 -> DelimitedAt(s, p, 6, <<"*", "*">>, "*", <<"*", "*">>)
      [] alt = 7 -> DelimitedAt(s, p, 7, <<"*">>, "*", <<"*">>)

\* the alternation at one position: the first alternative that matches wins
pattern(s, p) ==
    IF {AltAt(k, s, p) : k \in 1..7} \subseteq {NoMatch} THEN NoMatch
    ELSE CHOOSE m \in {AltAt(k, s, p) : k \in 1..7} :
            m.alt # 0 /\ \A m2 \in {AltAt(k, s, p) : k \in 1..7} : m2.alt # 0 => m.alt <= m2.alt

\* re.finditer: the next match at or after pos (matches are never empty)
NextMatch(s, pos) ==
    IF {pattern(s, p) : p \in pos..(Len(s) - 1)} \subseteq {NoMatch} THEN NoMatch
    ELSE CHOOSE m \in {pattern(s, p) : p \in pos..(Len(s) - 1)} :
            m.alt # 0 /\ \A m2 \in {pattern(s, p) : p \in pos..(Len(s) - 1)} : m2.alt # 0 => m.start <= m2.start

(***************************************************************************)
(* _parse_inline_formatting: the nodes.                                    *)
(***************************************************************************)
PlainNode(t) == [type |-> "text", text |-> t]

MarkedNode(t, mark) == [type |-> "text", text |-> t, marks |-> <<mark>>]

LinkMark(url) == [type |-> "link", attrs |-> [href |-> url, target |-> "_blank"]]

\* the chain with the single-asterisk test placed before the double-asterisk test
MarkNodesItalicFirst(matched_text, m) ==
    LET n == Len(matched_text)
    IN  IF StartsWith(matched_text, <<"[">>) /\ Contains(matched_text, <<"]", "(">>)
          THEN <<MarkedNode(m.g2, LinkMark(m.g3))>>
        ELSE IF StartsWith(matched_text, <<"h", "t", "t", "p">>) \/ StartsWith(matched_text, <<"w", "w", "w">>)
          THEN <<MarkedNode(matched_text,
                            LinkMark(IF StartsWith(matched_text, <<"h", "t", "t", "p">>)
                                       THEN matched_text
                                       ELSE <<"h", "t", "t", "p", "s", ":", "/", "/">> \o matched_text))>>
        ELSE IF StartsWith(matched_text, <<Backtick>>) /\ EndsWith(matched_text, <<Backtick>>)
          THEN <<MarkedNode(Slice(matched_text, 1, n - 1), [type |-> "code"])>>
        ELSE IF StartsWith(matched_text, <<"=", "=">>) /\ EndsWith(matched_text, <<"=", "=">>)
          THEN <<MarkedNode(Slice(matched_text, 2, n - 2), [type |-> "highlight"])>>
        ELSE IF StartsWith(matched_text, <<"~", "~">>) /\ EndsWith(matched_text, <<"~", "~">>)
          THEN <<MarkedNode(Slice(matched_text, 2, n - 2), [type |-> "strike"])>>
        ELSE IF StartsWith(matched_text, <<"*">>) /\ EndsWith(matched_text, <<"*">>)
          THEN <<MarkedNode(Slice(matched_text, 1, n - 1), [type |-> "italic"])>>
        ELSE IF StartsWith(matched_text, <<"*", "*">>) /\ EndsWith(matched_text, <<"*", "*">>)
          THEN <<MarkedNode(Slice(matched_text, 2, n - 2), [type |-> "bold"])>>
        ELSE <<>>

\* the if/elif chain on matched_text: the nodes it appends (none when no branch applies)
MarkNodes(matched_text, m) ==
    LET n == Len(matched_text)
    IN  IF StartsWith(matched_text, <<"[">>) /\ Contains(matched_text, <<"]", "(">>)
          THEN <<MarkedNode(m.g2, LinkMark(m.g3))>>
        ELSE IF StartsWith(matched_text, <<"h", "t", "t", "p">>) \/ StartsWith(matched_text, <<"w", "w", "w">>)
          THEN <<MarkedNode(matched_text,
                            LinkMark(IF StartsWith(matched_text, <<"h", "t", "t", "p">>)
                                       THEN matched_text
                                       ELSE <<"h", "t", "t", "p", "s", ":", "/", "/">> \o matched_text))>>
        ELSE IF StartsWith(matched_text, <<Backtick>>) /\ EndsWith(matched_text, <<Backtick>>)
          THEN <<MarkedNode(Slice(matched_text, 1, n - 1), [type |-> "code"])>>
        ELSE IF StartsWith(matched_text, <<"=", "=">>) /\ EndsWith(matched_text, <<"=", "=">>)
          THEN <<MarkedNode(Slice(matched_text, 2, n - 2), [type |-> "highlight"])>>
        ELSE IF StartsWith(matched_text, <<"~", "~">>) /\ EndsWith(matched_text, <<"~", "~">>)
          THEN <<MarkedNode(Slice(matched_text, 2, n - 2), [type |-> "strike"])>>
        ELSE IF StartsWith(matched_text, <<"*", "*">>) /\ EndsWith(matched_text, <<"*", "*">>)
          THEN <<MarkedNode(Slice(matched_text, 2, n - 2), [type |-> "bold"])>>
        ELSE IF StartsWith(matched_text, <<"*">>) /\ EndsWith(matched_text, <<"*">>)
          THEN <<MarkedNode(Slice(matched_text, 1, n - 1), [type |-> "italic"])>>
        ELSE <<>>

\* the text before a match is not flushed
PlainBeforeDropped(s, m, cur) == <<>>

\* "Add text before the match"
PlainBefore(s, m, cur) ==
    IF m.start > cur /\ Slice(s, cur, m.start) # <<>>
      THEN <<PlainNode(Slice(s, cur, m.start))>>
      ELSE <<>>

\* one iteration of the for loop over the matches
LoopBody(s, m, cur, res) == res \o PlainBefore(s, m, cur) \o MarkNodes(Slice(s, m.start, m.end), m)

\* "Add remaining text" and the return statements
Finish(s, cur, res) ==
    LET r == IF cur < Len(s) /\ Slice(s, cur, Len(s)) # <<>>
               THEN Append(res, PlainNode(Slice(s, cur, Len(s))))
               ELSE res
    IN  IF r = <<>> THEN (IF s # <<>> THEN <<PlainNode(s)>> ELSE <<>>) ELSE r

RECURSIVE FindIterLoop(_, _, _)
\* the for loop, at the match m that finditer yields next
FindIterStep(s, cur, res, m) ==
    IF m.alt = 0 THEN Finish(s, cur, res)
    ELSE FindIterLoop(s, m.end, LoopBody(s, m, cur, res))

FindIterLoop(s, cur, res) == CHOOSE r \in {FindIterStep(s, cur, res, m) : m \in {NextMatch(s, cur)}} : TRUE

_parse_inline_formatting(s) == CHOOSE r \in {FindIterLoop(t, 0, <<>>) : t \in {s}} : TRUE

(***************************************************************************)
(* Block nodes.                                                            *)
(***************************************************************************)
NoneVal == <<>>

Some(v) == <<v>>

Paragraph(c) == [type |-> "paragraph", content |-> c]

ListItem(c) == [type |-> "listItem", content |-> c]

ListNode(ltype, items) == [type |-> IF ltype = "bullet" THEN "bulletList" ELSE "orderedList", content |-> items]

(***************************************************************************)
(* _parse_list_items                                                       *)
(***************************************************************************)
get_indent_level(line) == Len(line) - Len(LStrip(line))

IsBulletText(stripped) == StartsWith(stripped, <<"-", " ">>) \/ StartsWith(stripped, <<"*", " ">>)

IsOrderedText(stripped) == stripped # <<>> /\ stripped[1] \in Digits /\ Contains(Slice(stripped, 0, 4), <<".", " ">>)

is_list_item(line, ltype) ==
    IF ltype = "bullet" THEN IsBulletText(LStrip(line)) ELSE IsOrderedText(LStrip(line))

\* "Extract item text"
item_text(line, list_type) ==
    LET stripped == LStrip(line)
    IN  IF list_type = "bullet" THEN Strip(Slice(stripped, 2, Len(stripped)))
        ELSE IF Contains(stripped, <<".", " ">>)
          THEN Strip(Slice(stripped, Find(stripped, <<".", " ">>) + 2, Len(stripped)))
          ELSE stripped

\* the ordered case forgotten
NestedTypeBullet(next_line) == "bullet"

\* "Determine nested list type"
nested_type(next_line) == IF IsBulletText(LStrip(next_line)) THEN "bullet" ELSE "ordered"

RECURSIVE _parse_list_items(_, _, _)
RECURSIVE ListLoop(_, _, _, _, _)
\* the nested items added to the list itself instead of to the item
ItemWithNestedFlattened(lines, i, base_indent, list_type, list_items, item_content, ntype, nested) ==
    IF nested.items # <<>>
      THEN ListLoop(lines, nested.next, base_indent, list_type,
                    Append(list_items, ListItem(item_content)) \o nested.items)
      ELSE ListLoop(lines, i + 1, base_indent, list_type, Append(list_items, ListItem(item_content)))

\* the nested list node added without the test of nested_items
ItemWithNestedUntested(lines, i, base_indent, list_type, list_items, item_content, ntype, nested) ==
    ListLoop(lines, IF nested.items # <<>> THEN nested.next ELSE i + 1, base_indent, list_type,
             Append(list_items, ListItem(Append(item_content, ListNode(ntype, nested.items)))))

\* the item at line i, once the nested call has returned nested = (nested_items, next_i)
ItemWithNested(lines, i, base_indent, list_type, list_items, item_content, ntype, nested) ==
    IF nested.items # <<>>
      THEN ListLoop(lines, nested.next, base_indent, list_type,
                    Append(list_items, ListItem(Append(item_content, ListNode(ntype, nested.items)))))
      ELSE ListLoop(lines, i + 1, base_indent, list_type, Append(list_items, ListItem(item_content)))

\* "Check if it's a list item at current level": the item at line i and what follows it
ItemAt(lines, i, base_indent, list_type, list_items, item_content) ==
    IF i + 1 < Len(lines)
       /\ get_indent_level(lines[i + 2]) > get_indent_level(lines[i + 1])
       /\ Strip(lines[i + 2]) # <<>>
      THEN CHOOSE r \in {ItemWithNested(lines, i, base_indent, list_type, list_items, item_content, ntype, nested) :
                              ntype \in {nested_type(lines[i + 2])},
                              nested \in {_parse_list_items(lines, i + 1, nested_type(lines[i + 2]))}} : TRUE
      ELSE ListLoop(lines, i + 1, base_indent, list_type, Append(list_items, ListItem(item_content)))

\* a deeper line that is not the start of a nested list ends the list
ListLoopDriftEnds(lines, i, base_indent, list_type, list_items) ==
    IF i >= Len(lines) THEN [items |-> list_items, next |-> i]
    ELSE IF Strip(lines[i + 1]) = <<>> THEN ListLoop(lines, i + 1, base_indent, list_type, list_items)
    ELSE IF get_indent_level(lines[i + 1]) < base_indent THEN [items |-> list_items, next |-> i]
    ELSE IF get_indent_level(lines[i + 1]) = base_indent /\ is_list_item(lines[i + 1], list_type)
      THEN ItemAt(lines, i, base_indent, list_type, list_items,
                  <<Paragraph(_parse_inline_formatting(item_text(lines[i + 1], list_type)))>>)
    ELSE [items |-> list_items, next |-> i]

\* the line that ends the list is consumed with it
ListLoopConsumingEnd(lines, i, base_indent, list_type, list_items) ==
    IF i >= Len(lines) THEN [items |-> list_items, next |-> i]
    ELSE IF Strip(lines[i + 1]) = <<>> THEN ListLoop(lines, i + 1, base_indent, list_type, list_items)
    ELSE IF get_indent_level(lines[i + 1]) < base_indent THEN [items |-> list_items, next |-> i]
    ELSE IF get_indent_level(lines[i + 1]) = base_indent /\ is_list_item(lines[i + 1], list_type)
      THEN ItemAt(lines, i, base_indent, list_type, list_items,
                  <<Paragraph(_parse_inline_formatting(item_text(lines[i + 1], list_type)))>>)
    ELSE IF get_indent_level(lines[i + 1]) > base_indent
      THEN ListLoop(lines, i + 1, base_indent, list_type, list_items)
    ELSE [items |-> list_items, next |-> i + 1]

\* the while loop of _parse_list_items; the result is (list_items, i)
ListLoop(lines, i, base_indent, list_type, list_items) ==
    IF i >= Len(lines) THEN [items |-> list_items, next |-> i]
    ELSE IF Strip(lines[i + 1]) = <<>> THEN ListLoop(lines, i + 1, base_indent, list_type, list_items)
    ELSE IF get_indent_level(lines[i + 1]) < base_indent THEN [items |-> list_items, next |-> i]
    ELSE IF get_indent_level(lines[i + 1]) = base_indent /\ is_list_item(lines[i + 1], list_type)
      THEN ItemAt(lines, i, base_indent, list_type, list_items,
                  <<Paragraph(_parse_inline_formatting(item_text(lines[i + 1], list_type)))>>)
    ELSE IF get_indent_level(lines[i + 1]) > base_indent
      THEN ListLoop(lines, i + 1, base_indent, list_type, list_items)
    ELSE [items |-> list_items, next |-> i]

_parse_list_items(lines, start_index, list_type) ==
    ListLoop(lines, start_index,
             IF start_index < Len(lines) THEN get_indent_level(lines[start_index + 1]) ELSE 0,
             list_type, <<>>)

(***************************************************************************)
(* _parse_table                                                            *)
(***************************************************************************)
\* "Collect all table lines": the index after the run of '|' lines
TableEnd(lines, start_index) ==
    CHOOSE e \in start_index..Len(lines) :
        /\ \A k \in (start_index + 1)..e : StartsWith(lines[k], <<"|">>)
        /\ (e = Len(lines) \/ ~StartsWith(lines[e + 1], <<"|">>))

IsSeparatorRow(line) ==
    \/ Contains(line, <<"-", "-", "-">>)
    \/ Contains(line, <<":", "-", ":">>)
    \/ Contains(line, <<":", "-", "-">>)
    \/ Contains(line, <<"-", "-", ":">>)

RECURSIVE StripNonEmpty(_, _)
\* [c.strip() for c in ...] followed by [c for c in cells if c], from part k on
StripNonEmpty(parts, k) ==
    IF k > Len(parts) THEN <<>>
    ELSE (IF Strip(parts[k]) # <<>> THEN <<Strip(parts[k])>> ELSE <<>>) \o StripNonEmpty(parts, k + 1)

RowCells(line) == CHOOSE r \in {StripNonEmpty(parts, 1) : parts \in {Split(line, "|")}} : TRUE

\* the type of the cells of a row
CellType(is_first_row, has_header, line_idx) ==
    IF ~(is_first_row /\ has_header) \/ line_idx > 0 THEN "tableCell" ELSE "tableHeader"

CellParagraph(cell_content) == Paragraph(IF cell_content # <<>> THEN cell_content ELSE <<PlainNode(<<>>)>>)

CellNode(ctype, cell_text) ==
    [type |-> ctype, content |-> <<CellParagraph(_parse_inline_formatting(cell_text))>>]

RowNode(ctype, cells) == [type |-> "tableRow", content |-> [k \in 1..Len(cells) |-> CellNode(ctype, cells[k])]]

RECURSIVE TableLoop(_, _, _, _, _)
\* the row put before the rows of the lines above it
TableRowPrepended(table_lines, line_idx, rows, is_first_row, has_header, cells) ==
    IF cells = <<>> THEN TableLoop(table_lines, line_idx + 1, rows, is_first_row, has_header)
    ELSE TableLoop(table_lines, line_idx + 1,
                   <<RowNode(CellType(is_first_row, has_header, line_idx), cells)>> \o rows,
                   IF is_first_row /\ has_header THEN FALSE ELSE is_first_row,
                   has_header)

\* the loop body for a row that is not the separator, cells being its non-empty cells
TableRow(table_lines, line_idx, rows, is_first_row, has_header, cells) ==
    IF cells = <<>> THEN TableLoop(table_lines, line_idx + 1, rows, is_first_row, has_header)
    ELSE TableLoop(table_lines, line_idx + 1,
                   Append(rows, RowNode(CellType(is_first_row, has_header, line_idx), cells)),
                   IF is_first_row /\ has_header THEN FALSE ELSE is_first_row,
                   has_header)

\* the for loop over enumerate(table_lines); the result is rows
TableLoop(table_lines, line_idx, rows, is_first_row, has_header) ==
    IF line_idx >= Len(table_lines) THEN rows
    ELSE IF IsSeparatorRow(table_lines[line_idx + 1])
      THEN TableLoop(table_lines, line_idx + 1, rows, is_first_row, TRUE)
    ELSE CHOOSE r \in {TableRow(table_lines, line_idx, rows, is_first_row, has_header, cells) :
                           cells \in {RowCells(table_lines[line_idx + 1])}} : TRUE

\* the table returned with start_index in place of the index after its lines
TableReturnNoAdvance(start_index, e, rows) ==
    IF e = start_index THEN [table |-> NoneVal, next |-> start_index]
    ELSE IF rows = <<>> THEN [table |-> NoneVal, next |-> start_index]
    ELSE [table |-> Some([type |-> "table", content |-> rows]), next |-> start_index]

\* the two return statements after the loops, e being the index after the table lines
TableReturn(start_index, e, rows) ==
    IF e = start_index THEN [table |-> NoneVal, next |-> start_index]
    ELSE IF rows = <<>> THEN [table |-> NoneVal, next |-> start_index]
    ELSE [table |-> Some([type |-> "table", content |-> rows]), next |-> e]

TableLinesFrom(lines, start_index, e) == SubSeq(lines, start_index + 1, e)

TableRows(lines, start_index, e) == TableLoop(TableLinesFrom(lines, start_index, e), 0, <<>>, TRUE, FALSE)

TableFrom(lines, start_index, e) == TableReturn(start_index, e, TableRows(lines, start_index, e))

\* the result is (table node or None, next index)
_parse_table(lines, start_index) == TableFrom(lines, start_index, TableEnd(lines, start_index))

(***************************************************************************)
(* The inputs of the model: texts built from small vocabularies of lines   *)
(* and of inline tokens.                                                   *)
(***************************************************************************)
Newline == <<"\n">>

Fence == <<Backtick, Backtick, Backtick>>

SeqsUpTo(S, n) == UNION {[1..k -> S] : k \in 1..n}

\* one line for each branch of the dispatcher
CoreLines ==
    { <<>>,
      <<"a", " ", "*", "*", "b", "*", "*">>,
      <<Backtick, Backtick, Backtick>>,
      <<Backtick, Backtick, Backtick, "p", "y">>,
      <<"#", " ", "h">>,
      <<"-", " ", "a">>,
      <<" ", " ", "-", " ", "b">>,
      <<"1", ".", " ", "x">>,
      <<">", " ", "q">>,
      <<"-", "-", "-">>,
      <<"|", " ", "A", " ", "|">>,
      <<"|", "-", "-", "-", "|">> }

\* list items at three indents, of both kinds, and a non-item line
ListLines ==
    { <<"-", " ", "a">>,
      <<" ", " ", "-", " ", "b">>,
      <<" ", " ", " ", " ", "*", " ", "c">>,
      <<"1", ".", " ", "x">>,
      <<" ", " ", "1", ".", " ", "y">>,
      <<" ", " ", "z">> }

\* a header row, a separator row, a body row and a body row with an empty inner cell
TableLines ==
    { <<"|", " ", "A", " ", "|", " ", "B", " ", "|">>,
      <<"|", "-", "-", "-", "|", "-", "-", "-", "|">>,
      <<"|", " ", "1", " ", "|", " ", "2", " ", "|">>,
      <<"|", " ", "1", " ", "|", "|", " ", "2", " ", "|">> }

\* what follows the run of '#'
HeadingTails ==
    { <<" ", "h">>,
      <<" ", "*", "h", "*", " ">>,
      <<"h">>,
      <<>> }

\* one token for each alternative of the pattern, plain text, and stray delimiters
Tokens ==
    { <<"[", "x", "]", "(", "u", ")">>,
      <<"h", "t", "t", "p", ":", "/", "/", "u">>,
      <<"w", "w", "w", ".", "u">>,
      <<Backtick, "x", Backtick>>,
      <<"=", "=", "x", "=", "=">>,
      <<"~", "~", "x", "~", "~">>,
      <<"*", "*", "x", "*", "*">>,
      <<"*", "x", "*">>,
      <<"x">>,
      <<" ">>,
      <<"*", "*">>,
      <<"*">>,
      <<Backtick>>,
      <<"[", "x", "]">>,
      <<"(", "u", ")">> }

\* whitespace only, pipes only, unbalanced delimiters, stray indentation, empty items, trailing blanks, a letter inside a list number
OddLines ==
    { <<" ", " ", " ">>,
      <<"|">>,
      <<"*", "*", "a">>,
      <<" ", " ", " ", "x">>,
      <<"1", ".", " ">>,
      <<"-", " ">>,
      <<"\t", "-", " ", "t">>,
      <<"|", "|">>,
      <<"x", " ">>,
      <<"-", "-", "-", " ">>,
      <<"1", "a", ".", " ", "x">> }

Letters == <<"a", "b", "c", "d", "e", "f", "g">>

Hashes(k) == [j \in 1..k |-> "#"]

Spaces(k) == [j \in 1..k |-> " "]

HeadingLines == {Hashes(k) \o t : k \in 1..MaxHashes, t \in HeadingTails}

\* n bullet lines, the first at column 0, each indented 1 or 2 more than the one before
RECURSIVE NestedLines(_, _, _, _)
NestedLines(n, k, indent, acc) ==
    IF k > n THEN {acc}
    ELSE UNION {NestedLines(n, k + 1, indent + d, Append(acc, Spaces(indent) \o <<m, " ", Letters[k]>>)) :
                    d \in {1, 2}, m \in {"-", "*"}}

NestedInputs == UNION {NestedLines(n, 1, 0, <<>>) : n \in 1..MaxDepth}

\* an opening fence line, lines of every kind, and a closing fence line or none
FencedInputs ==
    {<<open>> \o body \o close :
        open \in {Fence, Fence \o <<"p", "y">>, Fence \o <<" ", "j", "s", " ">>},
        body \in SeqsUpTo(CoreLines, MaxFenced),
        close \in {<<>>, <<Fence>>}}

Inputs ==
    {Join(ls, Newline) : ls \in SeqsUpTo(CoreLines, MaxLines)}
      \cup {Join(ls, Newline) : ls \in FencedInputs}
      \cup {Join(ls, Newline) : ls \in SeqsUpTo(ListLines, MaxListLines)}
      \cup {Join(ls, Newline) : ls \in SeqsUpTo(TableLines, MaxTableLines)}
      \cup {Join(ls, Newline) : ls \in NestedInputs}
      \cup {Join(ls, Newline) : ls \in SeqsUpTo(OddLines, MaxOddLines)}
      \cup HeadingLines
      \cup {Fence \o Newline \o h : h \in HeadingLines}

RECURSIVE Concat(_)
Concat(parts) == IF parts = <<>> THEN <<>> ELSE parts[1] \o Concat(Tail(parts))

InlineTexts == {<<>>} \cup {Concat(ts) : ts \in SeqsUpTo(Tokens, MaxTokens)}

(***************************************************************************)
(* State.  convert_to_tiptap_json: its argument, its locals, its position  *)
(* (pc) and its return value (doc).  _parse_inline_formatting called on    *)
(* its own: its argument, its locals and its position (ipc); at            *)
(* ipc = "done" result is the returned list.                               *)
(***************************************************************************)
VARIABLES markdown_text, lines, content, current_code_block, code_language, i, pc, doc,
          text, current_pos, result, ipc,
          _document_processor, pending, returned,
          db_page, req,
          current_user, page_versions, update_requests,
          space_pages, slug_req

cvars == <<markdown_text, lines, content, current_code_block, code_language, i, pc, doc>>

ivars == <<text, current_pos, result, ipc>>

\* the module global of the singleton, the conversions the application still
\* asks for and the (argument, return value) of each conversion that returned
svars == <<_document_processor, pending, returned>>

\* the row of the page in the database and the append requests
pvars == <<db_page, req>>

\* the user of the request handled last, the page_versions rows of the page
\* in insertion order, and its page_update_requests rows (the id is the index)
rvars == <<current_user, page_versions, update_requests>>

\* the pages rows of one space in insertion order (the id is the index) and
\* the requests that create or rename pages
qvars == <<space_pages, slug_req>>

wvars == <<rvars, qvars>>

vars == <<markdown_text, lines, content, current_code_block, code_language, i, pc, doc,
          text, current_pos, result, ipc,
          _document_processor, pending, returned,
          db_page, req,
          current_user, page_versions, update_requests,
          space_pages, slug_req>>

DefaultLanguage == <<"t", "e", "x", "t">>

ConvertIdle ==
    /\ markdown_text = <<>>
    /\ lines = <<>>
    /\ content = <<>>
    /\ current_code_block = NoneVal
    /\ code_language = DefaultLanguage
    /\ i = 0
    /\ pc = "idle"
    /\ doc = NoneVal

InlineIdle ==
    /\ text = <<>>
    /\ current_pos = 0
    /\ result = <<>>
    /\ ipc = "idle"

\* the attributes of an instance of DocumentProcessorService: __init__ sets none
DocumentProcessorService == <<>>

\* the texts the application converts one after the other on the singleton
ServiceInputs ==
    { <<"#", " ", "h">>,
      <<Backtick, Backtick, Backtick, "p", "y">>,
      <<"a", " ", "*", "*", "b", "*", "*">>,
      <<"-", " ", "a">> }

ServiceIdle ==
    /\ _document_processor = NoneVal
    /\ pending = <<>>
    /\ returned = <<>>

Users == {"author", "space_owner", "admin", "other"}

\* request.content of each append request
AppendContent == << <<"x">>, <<"#", " ", "h">> >>

Requests == DOMAIN AppendContent

\* the rows the page can be at the start: no content, an empty content list, one block
InitialPages ==
    {[content_json |-> cj[1], content_text |-> cj[2], version |-> 1, author_id |-> "author", edit_mode |-> em, status |-> "draft"] :
        cj \in { <<NoneVal, NoneVal>>,
                 <<Some([type |-> "doc", content |-> <<>>]), Some(<<>>)>>,
                 <<Some([type |-> "doc", content |-> <<Paragraph(<<PlainNode(<<"p">>)>>)>>]), Some(<<"p">>)>> },
        em \in {"anyone", "approval"}}

\* a document of one paragraph of unmarked text
TextDoc(t) == [type |-> "doc", content |-> <<Paragraph(<<PlainNode(t)>>)>>]

\* the page of the review workflow: one paragraph with a digit in it
ReviewPages ==
    {[content_json |-> Some(TextDoc(<<"p", "1">>)), content_text |-> Some(<<"p", "1">>), version |-> 1,
      author_id |-> "author", edit_mode |-> em, status |-> "draft"] : em \in {"anyone", "approval"}}

\* content_json of an update request and of a direct update
RequestedContent == TextDoc(<<"r">>)

UpdatedContent == TextDoc(<<"u">>)

\* the titles given to pages
Titles == {<<"T">>, <<"t">>}

SlugRequests == {1, 2}

NoSlugRequest == [state |-> "none", kind |-> "create", title |-> <<>>, slug |-> <<>>, counter |-> 1, page |-> 0]

ReviewIdle ==
    /\ current_user = "author"
    /\ page_versions = <<>>
    /\ update_requests = <<>>

SlugIdle ==
    /\ space_pages = <<>>
    /\ slug_req = [r \in SlugRequests |-> NoSlugRequest]

AppendIdle ==
    /\ db_page = NoneVal
    /\ req = [r \in Requests |-> [state |-> "none", user |-> "author", page |-> NoneVal]]

PagesIdle == AppendIdle /\ ReviewIdle /\ SlugIdle

\* a call of convert_to_tiptap_json(markdown_text)
InitConvert ==
    /\ markdown_text \in Inputs
    /\ lines = <<>>
    /\ content = <<>>
    /\ current_code_block = NoneVal
    /\ code_language = DefaultLanguage
    /\ i = 0
    /\ pc = "call"
    /\ doc = NoneVal
    /\ InlineIdle
    /\ ServiceIdle
    /\ PagesIdle

\* a call of _parse_inline_formatting(text)
InitInline ==
    /\ text \in InlineTexts
    /\ current_pos = 0
    /\ result = <<>>
    /\ ipc = "call"
    /\ ConvertIdle
    /\ ServiceIdle
    /\ PagesIdle

\* the application is about to convert up to MaxCalls texts, one after the other
InitService ==
    /\ pending \in SeqsUpTo(ServiceInputs, MaxCalls)
    /\ _document_processor = NoneVal
    /\ returned = <<>>
    /\ ConvertIdle
    /\ InlineIdle
    /\ PagesIdle

\* the append requests have arrived; the page is in the database or is not
InitPages ==
    /\ db_page \in {NoneVal} \cup {Some(p) : p \in InitialPages}
    /\ req = [r \in Requests |-> [state |-> "new", user |-> "author", page |-> NoneVal]]
    /\ ConvertIdle
    /\ InlineIdle
    /\ ServiceIdle
    /\ ReviewIdle
    /\ SlugIdle

\* the page is in the database, with no version row and no update request
InitReview ==
    /\ db_page \in {Some(p) : p \in ReviewPages}
    /\ req = [r \in Requests |-> [state |-> "none", user |-> "author", page |-> NoneVal]]
    /\ ReviewIdle
    /\ ConvertIdle
    /\ InlineIdle
    /\ ServiceIdle
    /\ SlugIdle

\* a space with no page or with one page, and requests that create or rename pages
InitSlugs ==
    /\ space_pages \in {<<>>, <<[title |-> <<"T">>, slug |-> <<"t">>]>>}
    /\ slug_req = [r \in SlugRequests |-> [NoSlugRequest EXCEPT !.state = "new"]]
    /\ AppendIdle
    /\ ReviewIdle
    /\ ConvertIdle
    /\ InlineIdle
    /\ ServiceIdle

Init == InitConvert \/ InitInline \/ InitService \/ InitPages \/ InitReview \/ InitSlugs

(***************************************************************************)
(* convert_to_tiptap_json                                                  *)
(***************************************************************************)
\* the code inline-formatted like a paragraph
CodeBlockFormatted(language, t) ==
    [type |-> "codeBlock", attrs |-> [language |-> language], content |-> _parse_inline_formatting(t)]

CodeBlock(language, t) ==
    [type |-> "codeBlock", attrs |-> [language |-> language], content |-> <<PlainNode(t)>>]

\* the level of the first branch copied to the other two
HeadingLevelOne(level, c) == [type |-> "heading", attrs |-> [level |-> 1], content |-> c]

Heading(level, c) == [type |-> "heading", attrs |-> [level |-> level], content |-> c]

\* the placeholder paragraph left out
DocumentNoPlaceholder(c) == [type |-> "doc", content |-> c]

Document(c) == [type |-> "doc", content |-> IF c # <<>> THEN c ELSE <<Paragraph(<<>>)>>]

IsOrderedStart(line) == line # <<>> /\ line[1] \in Digits /\ Contains(Slice(line, 0, 4), <<".", " ">>)

\* the if/elif chain of the loop body: the branch taken for a line
Branch(line, code_block) ==
    IF StartsWith(line, Fence) THEN "fence"
    ELSE IF code_block # NoneVal THEN "code"
    ELSE IF StartsWith(line, <<"#", " ">>) THEN "h1"
    ELSE IF StartsWith(line, <<"#", "#", " ">>) THEN "h2"
    ELSE IF StartsWith(line, <<"#", "#", "#", " ">>) THEN "h3"
    ELSE IF StartsWith(line, <<"-", " ">>) \/ StartsWith(line, <<"*", " ">>) THEN "bullet"
    ELSE IF IsOrderedStart(line) THEN "ordered"
    ELSE IF StartsWith(line, <<">", " ">>) THEN "quote"
    ELSE IF Strip(line) \in {<<"-", "-", "-">>, <<"*", "*", "*">>, <<"_", "_", "_">>} THEN "rule"
    ELSE IF StartsWith(line, <<"|">>) THEN "table"
    ELSE IF Strip(line) # <<>> THEN "paragraph"
    ELSE "blank"

\* the line under the cursor is dispatched to branch b
At(b) == pc = "loop" /\ i < Len(lines) /\ Branch(lines[i + 1], current_code_block) = b

\* the block list is kept from the call before, as an attribute of the instance would be
Split_linesKeepingContent ==
    /\ pc = "call"
    /\ lines' = Split(markdown_text, "\n")
    /\ current_code_block' = NoneVal
    /\ code_language' = DefaultLanguage
    /\ i' = 0
    /\ pc' = "loop"
    /\ UNCHANGED <<markdown_text, content, doc, ivars, svars, pvars, wvars>>

\* the call: the locals of lines 628-633
Split_lines ==
    /\ pc = "call"
    /\ lines' = Split(markdown_text, "\n")
    /\ content' = <<>>
    /\ current_code_block' = NoneVal
    /\ code_language' = DefaultLanguage
    /\ i' = 0
    /\ pc' = "loop"
    /\ UNCHANGED <<markdown_text, doc, ivars, svars, pvars, wvars>>

OpenFence ==
    /\ At("fence")
    /\ current_code_block = NoneVal
    /\ LET lang == Strip(Slice(lines[i + 1], 3, Len(lines[i + 1])))
       IN  code_language' = IF lang # <<>> THEN lang ELSE DefaultLanguage
    /\ current_code_block' = Some(<<>>)
    /\ i' = i + 1
    /\ UNCHANGED <<markdown_text, lines, content, pc, doc, ivars, svars, pvars, wvars>>

CloseFence ==
    /\ At("fence")
    /\ current_code_block # NoneVal
    /\ content' = Append(content, CodeBlock(code_language, Join(current_code_block[1], Newline)))
    /\ current_code_block' = NoneVal
    /\ i' = i + 1
    /\ UNCHANGED <<markdown_text, lines, code_language, pc, doc, ivars, svars, pvars, wvars>>

CodeLine ==
    /\ At("code")
    /\ current_code_block' = Some(Append(current_code_block[1], lines[i + 1]))
    /\ i' = i + 1
    /\ UNCHANGED <<markdown_text, lines, content, code_language, pc, doc, ivars, svars, pvars, wvars>>

HeadingLine ==
    /\ \E level \in 1..3 :
         /\ At(<<"h1", "h2", "h3">>[level])
         /\ content' = Append(content,
                Heading(level, _parse_inline_formatting(Strip(Slice(lines[i + 1], level + 1, Len(lines[i + 1]))))))
    /\ i' = i + 1
    /\ UNCHANGED <<markdown_text, lines, current_code_block, code_language, pc, doc, ivars, svars, pvars, wvars>>

BulletList ==
    /\ At("bullet")
    /\ \E r \in {_parse_list_items(lines, i, "bullet")} :
           IF r.items # <<>>
             THEN content' = Append(content, ListNode("bullet", r.items)) /\ i' = r.next
             ELSE content' = content /\ i' = i + 1
    /\ UNCHANGED <<markdown_text, lines, current_code_block, code_language, pc, doc, ivars, svars, pvars, wvars>>

OrderedList ==
    /\ At("ordered")
    /\ \E r \in {_parse_list_items(lines, i, "ordered")} :
           IF r.items # <<>>
             THEN content' = Append(content, ListNode("ordered", r.items)) /\ i' = r.next
             ELSE content' = content /\ i' = i + 1
    /\ UNCHANGED <<markdown_text, lines, current_code_block, code_language, pc, doc, ivars, svars, pvars, wvars>>

\* the index after the run of '> ' lines that starts at the cursor
QuoteEnd(ls, start) ==
    CHOOSE e \in start..Len(ls) :
        /\ \A k \in (start + 1)..e : StartsWith(ls[k], <<">", " ">>)
        /\ (e = Len(ls) \/ ~StartsWith(ls[e + 1], <<">", " ">>))

Blockquote ==
    /\ At("quote")
    /\ LET e == QuoteEnd(lines, i)
           quote_lines == [k \in 1..(e - i) |-> Slice(lines[i + k], 2, Len(lines[i + k]))]
           quote_text == Join(quote_lines, Newline)
       IN  /\ content' = Append(content, [type |-> "blockquote",
                                          content |-> <<Paragraph(_parse_inline_formatting(quote_text))>>])
           /\ i' = e
    /\ UNCHANGED <<markdown_text, lines, current_code_block, code_language, pc, doc, ivars, svars, pvars, wvars>>

HorizontalRule ==
    /\ At("rule")
    /\ content' = Append(content, [type |-> "horizontalRule"])
    /\ i' = i + 1
    /\ UNCHANGED <<markdown_text, lines, current_code_block, code_language, pc, doc, ivars, svars, pvars, wvars>>

Table ==
    /\ At("table")
    /\ \E r \in {_parse_table(lines, i)} :
           IF r.table # NoneVal
             THEN content' = Append(content, r.table[1]) /\ i' = r.next
             ELSE content' = content /\ i' = i + 1
    /\ UNCHANGED <<markdown_text, lines, current_code_block, code_language, pc, doc, ivars, svars, pvars, wvars>>

ParagraphLine ==
    /\ At("paragraph")
    /\ content' = Append(content, Paragraph(_parse_inline_formatting(lines[i + 1])))
    /\ i' = i + 1
    /\ UNCHANGED <<markdown_text, lines, current_code_block, code_language, pc, doc, ivars, svars, pvars, wvars>>

BlankLine ==
    /\ At("blank")
    /\ i' = i + 1
    /\ UNCHANGED <<markdown_text, lines, content, current_code_block, code_language, pc, doc, ivars, svars, pvars, wvars>>

\* the loop condition written "while i <= len(lines)": lines[i] is out of range at the end
ReturnAfterOverrun ==
    /\ pc = "loop"
    /\ i > Len(lines)
    /\ doc' = Some([type |-> "doc", content |-> IF content # <<>> THEN content ELSE <<[type |-> "paragraph", content |-> <<>>]>>])
    /\ pc' = "done"
    /\ returned' = Append(returned, <<markdown_text, doc'[1]>>)
    /\ UNCHANGED <<markdown_text, lines, content, current_code_block, code_language, i, ivars,
                   _document_processor, pending, pvars, wvars>>

Return ==
    /\ pc = "loop"
    /\ i >= Len(lines)
    /\ doc' = Some(Document(content))
    /\ pc' = "done"
    /\ returned' = Append(returned, <<markdown_text, doc'[1]>>)
    /\ UNCHANGED <<markdown_text, lines, content, current_code_block, code_language, i, ivars,
                   _document_processor, pending, pvars, wvars>>

(***************************************************************************)
(* _parse_inline_formatting, one match of re.finditer per step             *)
(***************************************************************************)
InlineCall ==
    /\ ipc = "call"
    /\ result' = <<>>
    /\ current_pos' = 0
    /\ ipc' = "loop"
    /\ UNCHANGED <<text, cvars, svars, pvars, wvars>>

InlineMatch ==
    /\ ipc = "loop"
    /\ \E m \in {NextMatch(text, current_pos)} :
           /\ m.alt # 0
           /\ result' = LoopBody(text, m, current_pos, result)
           /\ current_pos' = m.end
    /\ UNCHANGED <<text, ipc, cvars, svars, pvars, wvars>>

InlineReturn ==
    /\ ipc = "loop"
    /\ NextMatch(text, current_pos).alt = 0
    /\ result' = Finish(text, current_pos, result)
    /\ ipc' = "done"
    /\ UNCHANGED <<text, current_pos, cvars, svars, pvars, wvars>>

\* one step of a call of convert_to_tiptap_json
ConvertStep ==
    \/ Split_lines
    \/ OpenFence
    \/ CloseFence
    \/ CodeLine
    \/ HeadingLine
    \/ BulletList
    \/ OrderedList
    \/ Blockquote
    \/ HorizontalRule
    \/ Table
    \/ ParagraphLine
    \/ BlankLine
    \/ Return

\* one step of a call of _parse_inline_formatting
InlineStep ==
    \/ InlineCall
    \/ InlineMatch
    \/ InlineReturn

(***************************************************************************)
(* get_document_processor and the callers of the singleton                 *)
(***************************************************************************)
\* the module global after get_document_processor()
get_document_processor(global) == IF global = NoneVal THEN Some(DocumentProcessorService) ELSE global

\* processor = get_document_processor(); processor.convert_to_tiptap_json(...)
\* for the next text the application converts
ServiceCall ==
    /\ pending # <<>>
    /\ pc \in {"idle", "done"}
    /\ _document_processor' = get_document_processor(_document_processor)
    /\ markdown_text' = Head(pending)
    /\ pending' = Tail(pending)
    /\ pc' = "call"
    /\ UNCHANGED <<lines, content, current_code_block, code_language, i, doc, ivars, returned, pvars, wvars>>

(***************************************************************************)
(* append_page_content (api/pages.py).  The handler runs on the event loop: *)
(* from one await to the next it runs alone.  page.updated_at (a clock      *)
(* value) and the embedding update (its errors are swallowed) are left out. *)
(***************************************************************************)
\* "Check permissions"
can_edit(page, user) == page.author_id = user \/ user = "admin" \/ page.edit_mode = "anyone"

\* the new content replaces the old one
MergeReplacing(content_json, new_json) == new_json

\* "Merge": page.content_json after the merge
Merge(content_json, new_json) ==
    IF content_json = NoneVal \/ "content" \notin DOMAIN content_json[1] \/ content_json[1].content = <<>>
      THEN new_json
      ELSE [content_json[1] EXCEPT !.content = @ \o new_json.content]

\* "Update text representation"
AppendedText(content_text, request_content) ==
    (IF content_text = NoneVal THEN <<>> ELSE content_text[1]) \o <<"\n", "\n">> \o request_content

\* no handler is between two awaits in its conversion
LoopFree == pc \in {"idle", "done"} /\ \A q \in Requests : req[q].state # "converting"

\* the select returns the page; 404, 403, or the conversion of request.content starts
AppendFetch(r) ==
    /\ req[r].state = "new"
    /\ LoopFree
    /\ \E user \in Users :
         IF db_page = NoneVal
           THEN /\ req' = [req EXCEPT ![r] = [state |-> "404", user |-> user, page |-> NoneVal]]
                /\ UNCHANGED <<_document_processor, markdown_text, pc>>
         ELSE IF ~can_edit(db_page[1], user)
           THEN /\ req' = [req EXCEPT ![r] = [state |-> "403", user |-> user, page |-> db_page]]
                /\ UNCHANGED <<_document_processor, markdown_text, pc>>
         ELSE /\ req' = [req EXCEPT ![r] = [state |-> "converting", user |-> user, page |-> db_page]]
              /\ _document_processor' = get_document_processor(_document_processor)
              /\ markdown_text' = AppendContent[r]
              /\ pc' = "call"
    /\ UNCHANGED <<lines, content, current_code_block, code_language, i, doc, ivars, pending, returned, db_page, wvars>>

\* the conversion has returned new_json: the merge on the session's page, up to "await db.commit()"
AppendMerge(r) ==
    /\ req[r].state = "converting"
    /\ pc = "done"
    /\ req' = [req EXCEPT ![r].state = "merged",
                          ![r].page = Some([@[1] EXCEPT !.content_json = Some(Merge(@, doc[1])),
                                                       !.content_text = Some(AppendedText(@, AppendContent[r])),
                                                       !.version = @ + 1])]
    /\ UNCHANGED <<cvars, ivars, svars, db_page, wvars>>

\* the commit writes the changed columns; the handler refreshes the page and
\* returns it.  The handler takes no lock and checks no version.  When the row
\* has been committed by another request since this one read it, the engine
\* (app/core/database.py, whose isolation level the sources do not show)
\* either lets the commit overwrite the row or rejects it, and the request
\* then fails without a write.
AppendCommit(r) ==
    /\ req[r].state = "merged"
    /\ \/ /\ db_page' = Some([db_page[1] EXCEPT !.content_json = req[r].page[1].content_json,
                                                !.content_text = req[r].page[1].content_text,
                                                !.version = req[r].page[1].version])
          /\ req' = [req EXCEPT ![r].state = "committed", ![r].page = db_page']
       \/ /\ db_page[1].version # req[r].page[1].version - 1
          /\ req' = [req EXCEPT ![r].state = "500"]
          /\ UNCHANGED db_page
    /\ UNCHANGED <<cvars, ivars, svars, wvars>>

(***************************************************************************)
(* The review workflow of api/pages.py (update_page, publish_page,          *)
(* create_update_request, approve_update_request, reject_update_request)    *)
(* and the page edit of the AI chat (api/ai.py).  Each handler is taken as  *)
(* one step, for one request at a time.  A request that is refused changes  *)
(* nothing; current_user is the user of the last request that wrote.        *)
(* Titles, timestamps, last_published_by and the embedding update are left  *)
(* out; the slug branch of approve_update_request (lines 654-672) runs      *)
(* after page.title has been set to update_request.title and is never       *)
(* entered.                                                                 *)
(***************************************************************************)
\* the review workflow is explored on a page that no append request works on
NoAppend == \A r \in Requests : req[r].state = "none"

RECURSIVE extract_text(_)
RECURSIVE extract_text_list(_, _)
\* the inner function of extract_text_from_content: the texts of the text nodes
extract_text(node) ==
    (IF node.type = "text" THEN <<IF "text" \in DOMAIN node THEN node.text ELSE <<>>>> ELSE <<>>)
      \o (IF "content" \in DOMAIN node THEN extract_text_list(node.content, 1) ELSE <<>>)

extract_text_list(nodes, k) ==
    IF k > Len(nodes) THEN <<>> ELSE extract_text(nodes[k]) \o extract_text_list(nodes, k + 1)

extract_text_from_content(content_json) == Join(extract_text(content_json), <<" ">>)

is_page_owner(page, user) == page.author_id = user

\* space.owner_id == current_user.id
is_space_owner(user) == user = "space_owner"

is_admin(user) == user = "admin"

\* "If page requires approval and user is not owner/admin, reject direct edit"
MayUpdate(page, user) ==
    ~(page.edit_mode = "approval" /\ ~(is_page_owner(page, user) \/ is_space_owner(user) \/ is_admin(user)))

\* update_page with content_json set in page_data: 403, or the draft content is replaced
update_page(user) ==
    /\ NoAppend
    /\ db_page # NoneVal
    /\ IF MayUpdate(db_page[1], user)
         THEN /\ current_user' = user
              /\ db_page' = Some([db_page[1] EXCEPT !.content_json = Some(UpdatedContent),
                                                     !.content_text = Some(extract_text_from_content(UpdatedContent))])
         ELSE UNCHANGED <<current_user, db_page>>
    /\ UNCHANGED <<cvars, ivars, svars, req, page_versions, update_requests, qvars>>

\* a page_versions row, without its copy of the title and the content
PageVersion(page_version, author_id, is_published) ==
    [version |-> page_version, author_id |-> author_id, is_published |-> is_published]

\* publish_page: 403, or a version row for version + 1 and the page at version + 1
publish_page(user) ==
    /\ NoAppend
    /\ db_page # NoneVal
    /\ db_page[1].version < MaxVersion
    /\ IF is_page_owner(db_page[1], user) \/ is_space_owner(user) \/ is_admin(user)
         THEN /\ current_user' = user
              /\ page_versions' = Append(page_versions,
                                         PageVersion(db_page[1].version + 1, user, TRUE))
              /\ db_page' = Some([db_page[1] EXCEPT !.version = @ + 1, !.status = "published"])
         ELSE UNCHANGED <<current_user, db_page, page_versions>>
    /\ UNCHANGED <<cvars, ivars, svars, req, update_requests, qvars>>

\* the users who ask for an update instead of writing themselves
Requesters == {"other"}

\* create_update_request: a pending request of the user
create_update_request(user) ==
    /\ NoAppend
    /\ db_page # NoneVal
    /\ Len(update_requests) < MaxUpdateRequests
    /\ current_user' = user
    /\ update_requests' = Append(update_requests,
                                 [requester_id |-> user, content_json |-> Some(RequestedContent),
                                  content_text |-> Some(extract_text_from_content(RequestedContent)),
                                  status |-> "pending", reviewed_by |-> NoneVal])
    /\ UNCHANGED <<cvars, ivars, svars, pvars, page_versions, qvars>>

\* approve_update_request: 403, or the snapshot row, the content of the
\* request on the page, the row of the new version and the request approved;
\* the status of the request is not read
approve_update_request(request_id, user) ==
    /\ request_id \in 1..Len(update_requests)
    /\ NoAppend
    /\ db_page # NoneVal
    /\ db_page[1].version < MaxVersion
    /\ IF is_page_owner(db_page[1], user) \/ is_admin(user)
         THEN /\ current_user' = user
              /\ db_page' = Some([db_page[1] EXCEPT !.content_json = update_requests[request_id].content_json,
                                                    !.content_text = update_requests[request_id].content_text,
                                                    !.status = "published",
                                                    !.version = @ + 1])
              /\ page_versions' = page_versions
                    \o <<PageVersion(db_page[1].version, db_page[1].author_id, FALSE),
                         PageVersion(db_page[1].version + 1, update_requests[request_id].requester_id, TRUE)>>
              /\ update_requests' = [update_requests EXCEPT ![request_id].status = "approved",
                                                            ![request_id].reviewed_by = Some(user)]
         ELSE UNCHANGED <<current_user, db_page, page_versions, update_requests>>
    /\ UNCHANGED <<cvars, ivars, svars, req, qvars>>

\* reject_update_request: 403, or the request rejected; the status of the
\* request is not read
reject_update_request(request_id, user) ==
    /\ request_id \in 1..Len(update_requests)
    /\ NoAppend
    /\ db_page # NoneVal
    /\ IF is_page_owner(db_page[1], user) \/ is_admin(user)
         THEN /\ current_user' = user
              /\ update_requests' = [update_requests EXCEPT ![request_id].status = "rejected",
                                                            ![request_id].reviewed_by = Some(user)]
         ELSE UNCHANGED <<current_user, update_requests>>
    /\ UNCHANGED <<cvars, ivars, svars, pvars, page_versions, qvars>>

RECURSIVE extract_text_json(_)
\* the inner function of _extract_text_from_json: the text of a node and of its children, joined by spaces
extract_text_json(node) ==
    Join((IF node.type = "text" THEN <<IF "text" \in DOMAIN node THEN node.text ELSE <<>>>> ELSE <<>>)
           \o (IF "content" \in DOMAIN node
                  THEN [k \in 1..Len(node.content) |-> extract_text_json(node.content[k])]
                  ELSE <<>>),
         <<" ">>)

_extract_text_from_json(content_json) == Strip(extract_text_json(content_json))

\* str.replace("1", "2") on a text
ReplaceDigit(t) == [k \in 1..Len(t) |-> IF t[k] = "1" THEN "2" ELSE t[k]]

\* json.loads(json.dumps(content_json).replace("1", "2")) on a document of paragraphs of unmarked text
ReplaceInJson(content_json) ==
    [content_json EXCEPT !.content =
        [k \in 1..Len(@) |-> [@[k] EXCEPT !.content = [j \in 1..Len(@) |-> [@[j] EXCEPT !.text = ReplaceDigit(@)]]]]]

\* what edit_text_with_ai may return
EditedTexts == {<<"e">>}

\* chat with an EDIT_PAGE marker in the answer of the agent: _perform_page_edit
\* with an instruction that names two numbers (simple) or another one; the
\* function receives the page id and the instruction, and tests no user
_perform_page_edit(user, simple_replace) ==
    /\ NoAppend
    /\ db_page # NoneVal
    /\ db_page[1].version < MaxVersion
    /\ IF db_page[1].content_json = NoneVal
         THEN UNCHANGED <<current_user, db_page>>
       ELSE IF simple_replace
         THEN /\ current_user' = user
              /\ db_page' = Some([db_page[1] EXCEPT
                                     !.content_json = Some(ReplaceInJson(@[1])),
                                     !.content_text = IF @ = NoneVal \/ @ = Some(<<>>) THEN @ ELSE Some(ReplaceDigit(@[1])),
                                     !.version = @ + 1])
       ELSE IF _extract_text_from_json(db_page[1].content_json[1]) = <<>>
         THEN UNCHANGED <<current_user, db_page>>
       ELSE /\ current_user' = user
            /\ \E edited_text \in EditedTexts :
                   db_page' = Some([db_page[1] EXCEPT !.content_text = Some(edited_text), !.version = @ + 1])
    /\ UNCHANGED <<cvars, ivars, svars, req, page_versions, update_requests, qvars>>

ReviewStep ==
    \E user \in Users :
        \/ update_page(user)
        \/ publish_page(user)
        \/ user \in Requesters /\ create_update_request(user)
        \/ \E request_id \in 1..MaxUpdateRequests :
              approve_update_request(request_id, user) \/ reject_update_request(request_id, user)
        \/ \E simple_replace \in BOOLEAN : _perform_page_edit(user, simple_replace)

(***************************************************************************)
(* The slug of a page: create_page and the title change of update_page      *)
(* (api/pages.py) and document_to_page (api/documents.py).  A handler runs  *)
(* alone between two awaits, so there is one step per select of the slug    *)
(* and one for the commit.  The pages table has an index on slug that is    *)
(* not unique, and no constraint on (space_id, slug): the commit stores     *)
(* whatever slug the handler has chosen.  All pages are in one space.       *)
(***************************************************************************)
\* slugify of python-slugify on the letters of Titles: letters are lower-cased
slugify(title) == [k \in 1..Len(title) |-> IF title[k] = "T" THEN "t" ELSE title[k]]

\* str(counter) for the counters that occur
CounterDigits == <<"1", "2", "3", "4", "5", "6", "7", "8", "9">>

\* f"{base_slug}-{counter}"
SuffixedSlug(base_slug, counter) == base_slug \o <<"-", CounterDigits[counter]>>

\* int(time.time()) of the requests, which may arrive within one second
Times == {<<"8">>}

\* the select of the slug check: the pages with this slug, other than the page being renamed
SlugTaken(slug, kind, page_id) ==
    \E k \in 1..Len(space_pages) : space_pages[k].slug = slug /\ (kind = "update" => k # page_id)

\* create_page up to its first select of the slug
create_page_start(r) ==
    /\ slug_req[r].state = "new"
    /\ \E title \in Titles :
         slug_req' = [slug_req EXCEPT ![r] = [state |-> "checking", kind |-> "create", title |-> title,
                                              slug |-> slugify(title), counter |-> 1, page |-> 0]]
    /\ UNCHANGED <<cvars, ivars, svars, pvars, rvars, space_pages>>

\* update_page with a title in page_data, up to its first select of the slug;
\* a title equal to page.title leaves the slug alone
update_page_title(r) ==
    /\ slug_req[r].state = "new"
    /\ \E page_id \in 1..Len(space_pages), title \in Titles :
         slug_req' = [slug_req EXCEPT ![r] =
                        [state |-> IF title # space_pages[page_id].title THEN "checking" ELSE "done",
                         kind |-> "update", title |-> title,
                         slug |-> IF title # space_pages[page_id].title THEN slugify(title) ELSE space_pages[page_id].slug,
                         counter |-> 1, page |-> page_id]]
    /\ UNCHANGED <<cvars, ivars, svars, pvars, rvars, space_pages>>

\* one turn of "while True": the select, then break or the next candidate
slug_check(r) ==
    /\ slug_req[r].state = "checking"
    /\ slug_req[r].kind \in {"create", "update"}
    /\ slug_req' = IF ~SlugTaken(slug_req[r].slug, slug_req[r].kind, slug_req[r].page)
                     THEN [slug_req EXCEPT ![r].state = "insert"]
                     ELSE [slug_req EXCEPT ![r].slug = SuffixedSlug(slugify(slug_req[r].title), slug_req[r].counter),
                                           ![r].counter = @ + 1]
    /\ UNCHANGED <<cvars, ivars, svars, pvars, rvars, space_pages>>

\* db.add(page) and the commit of create_page; setattr and the commit of
\* update_page.  When another request has committed the same slug since the
\* select, the engine (app/core/database.py, whose isolation level the
\* sources do not show) stores the row all the same or rejects the commit.
slug_commit(r) ==
    /\ slug_req[r].state = "insert"
    /\ slug_req[r].kind \in {"create", "update"}
    /\ \/ /\ space_pages' = IF slug_req[r].kind = "create"
                              THEN Append(space_pages, [title |-> slug_req[r].title, slug |-> slug_req[r].slug])
                              ELSE [space_pages EXCEPT ![slug_req[r].page] =
                                       [title |-> slug_req[r].title, slug |-> slug_req[r].slug]]
          /\ slug_req' = [slug_req EXCEPT ![r].state = "done"]
       \/ /\ SlugTaken(slug_req[r].slug, slug_req[r].kind, slug_req[r].page)
          /\ slug_req' = [slug_req EXCEPT ![r].state = "500"]
          /\ UNCHANGED space_pages
    /\ UNCHANGED <<cvars, ivars, svars, pvars, rvars>>

\* document_to_page up to its select of the slug
document_to_page_start(r) ==
    /\ slug_req[r].state = "new"
    /\ \E title \in Titles :
         slug_req' = [slug_req EXCEPT ![r] = [state |-> "checking", kind |-> "import", title |-> title,
                                              slug |-> slugify(title), counter |-> 1, page |-> 0]]
    /\ UNCHANGED <<cvars, ivars, svars, pvars, rvars, space_pages>>

\* "Check for slug conflicts": one select; a taken slug gets the time as a suffix and is not looked up again
document_to_page_check(r) ==
    /\ slug_req[r].state = "checking"
    /\ slug_req[r].kind = "import"
    /\ \E now \in Times :
         slug_req' = [slug_req EXCEPT ![r].state = "insert",
                                      ![r].slug = IF SlugTaken(@, "import", 0) THEN @ \o <<"-">> \o now ELSE @]
    /\ UNCHANGED <<cvars, ivars, svars, pvars, rvars, space_pages>>

\* Page(..., owner_id=current_user.id, ...), db.add and the commit.  Page has
\* no attribute owner_id; the constructor comes from Base (app/core/database.py,
\* not in the sources): it raises TypeError, or it accepts the keyword and the
\* page is stored.
document_to_page_commit(r) ==
    /\ slug_req[r].state = "insert"
    /\ slug_req[r].kind = "import"
    /\ \/ /\ slug_req' = [slug_req EXCEPT ![r].state = "error"]
          /\ UNCHANGED space_pages
       \/ /\ space_pages' = Append(space_pages, [title |-> slug_req[r].title, slug |-> slug_req[r].slug])
          /\ slug_req' = [slug_req EXCEPT ![r].state = "done"]
    /\ UNCHANGED <<cvars, ivars, svars, pvars, rvars>>

SlugStep ==
    \E r \in SlugRequests :
        \/ create_page_start(r)
        \/ update_page_title(r)
        \/ slug_check(r)
        \/ slug_commit(r)
        \/ document_to_page_start(r)
        \/ document_to_page_check(r)
        \/ document_to_page_commit(r)

PageStep == \E r \in Requests : AppendFetch(r) \/ AppendMerge(r) \/ AppendCommit(r)

Next == ConvertStep \/ InlineStep \/ ServiceCall \/ PageStep \/ ReviewStep \/ SlugStep

Spec == Init /\ [][Next]_vars

\* a call of convert_to_tiptap_json is synchronous: the interpreter runs it
\* until it returns or raises
FairSpec == Spec /\ WF_vars(ConvertStep)

(***************************************************************************)
(* Properties.                                                             *)
(***************************************************************************)
IsList(x) == DOMAIN x = 1..Len(x)

\* the number of '#' a line starts with
HashRun(line) ==
    CHOOSE n \in 0..Len(line) : (\A k \in 1..n : line[k] = "#") /\ (n = Len(line) \/ line[n + 1] # "#")

\* the fence is open before line k (0-based): an odd number of fence lines precedes it
FenceOpenBefore(ls, k) == Cardinality({j \in 1..k : StartsWith(ls[j], Fence)}) % 2 = 1

\* the 0-based index of the fence line that opened the fence open before line k
OpenerBefore(ls, k) == CHOOSE o \in 0..(k - 1) : StartsWith(ls[o + 1], Fence) /\ \A j \in (o + 2)..k : ~StartsWith(ls[j], Fence)

\* what convert_to_tiptap_json returned is a node of type 'doc' with a 'content' list
C1_Returned ==
    pc = "done" =>
      /\ Len(doc) = 1
      /\ DOMAIN doc[1] = {"type", "content"}
      /\ doc[1].type = "doc"
      /\ IsList(doc[1].content)

C2_CursorInv ==
    /\ i <= Len(lines)
    /\ pc = "done" => i = Len(lines)
    /\ pc = "loop" /\ i = 0 =>
         \A k \in 0..(Len(lines) - 1) :
            /\ _parse_table(lines, k).next \in k..Len(lines)
            /\ \A t \in {"bullet", "ordered"} : _parse_list_items(lines, k, t).next \in k..Len(lines)

\* an iteration of the loop moves the cursor forward and not past the lines;
\* the loop is left only with the cursor at the number of lines
C2_Step ==
    pc = "loop" =>
      IF pc' = "loop" THEN i < i' /\ i' <= Len(lines) /\ lines' = lines
      ELSE pc' = "done" /\ i' = i /\ i = Len(lines)

\* C2: the cursor only moves forward: every iteration of the dispatcher loop
\* increases i by at least 1, every index _parse_list_items and _parse_table
\* return is at most the line count (and not before their start), the cursor
\* never passes the line count, so that the distance to the line count shrinks
\* with every iteration, and the conversion ends with i equal to the number of
\* lines.
C2_CursorProgress == []C2_CursorInv /\ [][C2_Step]_cvars

\* a table of three lines was consumed in one iteration and the conversion returned
C2_Witness ==
    /\ pc = "done"
    /\ Len(lines) = 3
    /\ Len(content) = 1
    /\ content[1].type = "table"

\* C3: the returned content is never empty: when no block was emitted (as for
\* an input of blank lines only) the document is exactly one empty paragraph,
\* otherwise its content is exactly the emitted blocks.
C3_NeverEmpty ==
    pc = "done" =>
      /\ doc[1].content # <<>>
      /\ content = <<>> => doc[1] = [type |-> "doc", content |-> <<[type |-> "paragraph", content |-> <<>>]>>]
      /\ content # <<>> => doc[1] = [type |-> "doc", content |-> content]
      /\ (\A k \in 1..Len(markdown_text) : markdown_text[k] \in Whitespace) => content = <<>>

\* two blank lines were converted
C3_Witness ==
    /\ pc = "done"
    /\ markdown_text = <<"\n">>
    /\ content = <<>>

\* C4: outside a code fence a line of one, two or three '#' and a space yields
\* exactly one heading of that level whose content is the inline-formatted
\* remainder, and a line of four or more '#' yields a paragraph.
C4_HeadingStep ==
    pc = "loop" /\ i < Len(lines) /\ ~FenceOpenBefore(lines, i) =>
      LET line == lines[i + 1]
          n == HashRun(line)
      IN  /\ n \in 1..3 /\ StartsWithAt(line, n, <<" ">>) =>
                /\ content' = Append(content,
                      [type |-> "heading", attrs |-> [level |-> n],
                       content |-> _parse_inline_formatting(Strip(Slice(line, n + 1, Len(line))))])
                /\ i' = i + 1
          /\ n >= 4 =>
                /\ Len(content') = Len(content) + 1
                /\ SubSeq(content', 1, Len(content)) = content
                /\ content'[Len(content')].type = "paragraph"
                /\ i' = i + 1

C4_HeadingLevels == [][C4_HeadingStep]_cvars

\* a level-3 heading with a marked text was emitted
C4_Witness ==
    /\ pc = "done"
    /\ markdown_text = <<"#", "#", "#", " ", "*", "h", "*", " ">>
    /\ content = <<[type |-> "heading", attrs |-> [level |-> 3],
                    content |-> <<[type |-> "text", text |-> <<"h">>, marks |-> <<[type |-> "italic"]>>]>>]>>

\* C5: while a fence is open no line goes to another block handler: a line
\* that does not start with the fence marker emits nothing, and the closing
\* line emits exactly one codeBlock whose language is the trimmed text after
\* the opening backticks ('text' if none) and whose content is one unmarked
\* text node, the lines since the opening joined by newline.
C5_FenceStep ==
    pc = "loop" /\ i < Len(lines) /\ FenceOpenBefore(lines, i) =>
      IF StartsWith(lines[i + 1], Fence)
        THEN LET o == OpenerBefore(lines, i)
                 lang == Strip(Slice(lines[o + 1], 3, Len(lines[o + 1])))
             IN  content' = Append(content,
                     [type |-> "codeBlock",
                      attrs |-> [language |-> IF lang = <<>> THEN <<"t", "e", "x", "t">> ELSE lang],
                      content |-> <<[type |-> "text", text |-> Join(SubSeq(lines, o + 2, i), Newline)]>>])
        ELSE content' = content

C5_FenceIsolation == [][C5_FenceStep]_cvars

\* a fence with a language tag that holds a heading line was closed
C5_Witness ==
    /\ pc = "done"
    /\ lines = <<Fence \o <<"p", "y">>, <<"#", " ", "h">>, Fence>>
    /\ content = <<[type |-> "codeBlock", attrs |-> [language |-> <<"p", "y">>],
                    content |-> <<[type |-> "text", text |-> <<"#", " ", "h">>]>>]>>

\* C6: when the input ends while a fence is open, the lines buffered since the
\* opening fence are in the returned document as a codeBlock with the captured
\* language.
C6_UnterminatedFlushed ==
    pc = "done" /\ FenceOpenBefore(lines, Len(lines))
      /\ (\E k \in (OpenerBefore(lines, Len(lines)) + 2)..Len(lines) : Strip(lines[k]) # <<>>) =>
      LET o == OpenerBefore(lines, Len(lines))
          lang == Strip(Slice(lines[o + 1], 3, Len(lines[o + 1])))
      IN  \E k \in 1..Len(doc[1].content) :
             doc[1].content[k] =
                [type |-> "codeBlock",
                 attrs |-> [language |-> IF lang = <<>> THEN <<"t", "e", "x", "t">> ELSE lang],
                 content |-> <<[type |-> "text", text |-> Join(SubSeq(lines, o + 2, Len(lines)), Newline)]>>]

\* a line of '-', ':', '|' and blanks only that holds a run of three '-'
SeparatorLine(line) ==
    /\ \A k \in 1..Len(line) : line[k] \in {"-", ":", "|", " "}
    /\ \E k \in 1..(Len(line) - 2) : line[k] = "-" /\ line[k + 1] = "-" /\ line[k + 2] = "-"

\* the input is one run of '|' lines: a row with cells, a separator, then rows with cells
C7_HeaderTable ==
    /\ Len(lines) >= 2
    /\ \A k \in 1..Len(lines) : StartsWith(lines[k], <<"|">>)
    /\ SeparatorLine(lines[2])
    /\ \A k \in 1..Len(lines) : k # 2 => \E c \in 1..Len(lines[k]) : lines[k][c] \notin {"-", ":", "|", " "}

\* C7: in a run of '|' lines where a separator follows the first row, the
\* separator gives no row, the cells of the row before the separator are of
\* type 'tableHeader' and the cells of every other row are of type 'tableCell'.
C7_HeaderInference ==
    pc = "done" /\ C7_HeaderTable =>
      /\ Len(doc[1].content) = 1
      /\ doc[1].content[1].type = "table"
      /\ Len(doc[1].content[1].content) = Len(lines) - 1
      /\ \A r \in 1..Len(doc[1].content[1].content) :
            /\ doc[1].content[1].content[r].type = "tableRow"
            /\ \A c \in 1..Len(doc[1].content[1].content[r].content) :
                  doc[1].content[1].content[r].content[c].type = (IF r = 1 THEN "tableHeader" ELSE "tableCell")

\* the kind of list a line's marker asks for ("none" when the line is no item)
MarkerKind(line) ==
    LET st == LStrip(line)
    IN  IF Len(st) >= 3 /\ st[1] \in {"-", "*"} /\ st[2] = " " THEN "bulletList"
        ELSE IF Len(st) >= 4 /\ st[1] \in Digits /\ st[2] = "." /\ st[3] = " " THEN "orderedList"
        ELSE "none"

\* the text after the marker of an item line
MarkerText(line) ==
    LET st == LStrip(line)
    IN  IF MarkerKind(line) = "bulletList" THEN SubSeq(st, 3, Len(st)) ELSE SubSeq(st, 4, Len(st))

\* the lines are items of plain words, the first at column 0, each indented deeper than the one before
ItemChain(ls) ==
    /\ Len(ls) >= 1
    /\ \A k \in 1..Len(ls) :
          /\ MarkerKind(ls[k]) # "none"
          /\ \A c \in 1..Len(MarkerText(ls[k])) : MarkerText(ls[k])[c] \in {"a", "b", "c", "d", "e", "f", "g", "x", "y"}
    /\ ls[1][1] # " "
    /\ \A k \in 1..(Len(ls) - 1) :
          \E n \in 0..Len(ls[k]) : \E d \in 1..Len(ls[k + 1]) :
             /\ LStrip(ls[k]) = SubSeq(ls[k], n + 1, Len(ls[k]))
             /\ LStrip(ls[k + 1]) = SubSeq(ls[k + 1], n + d + 1, Len(ls[k + 1]))
             /\ \A c \in 1..(n + d) : ls[k + 1][c] = " "

RECURSIVE ChainList(_, _)
\* the list of line k: one item, its paragraph, and under it the list of line k + 1
ChainList(ls, k) ==
    [type |-> MarkerKind(ls[k]),
     content |-> <<[type |-> "listItem",
                    content |-> <<[type |-> "paragraph",
                                   content |-> <<[type |-> "text", text |-> MarkerText(ls[k])]>>]>>
                                  \o (IF k < Len(ls) THEN <<ChainList(ls, k + 1)>> ELSE <<>>)]>>]

C9_MixedKinds ==
    pc = "done" /\ ItemChain(lines)
      /\ (\E k \in 1..(Len(lines) - 1) : MarkerKind(lines[k]) # MarkerKind(lines[k + 1])) =>
      doc[1] = [type |-> "doc", content |-> <<ChainList(lines, 1)>>]

\* a numbered item under a bullet item was converted
C9_Witness ==
    /\ pc = "done"
    /\ lines = << <<"-", " ", "a">>, <<" ", " ", "1", ".", " ", "y">> >>
    /\ doc[1].content[1].type = "bulletList"
    /\ doc[1].content[1].content[1].content[2].type = "orderedList"

\* the mark of each alternative of the pattern, in the order of the alternation
AltMark == <<"link", "link", "code", "highlight", "strike", "bold", "italic">>

RECURSIVE AtMostOneMark(_)
\* no text node of the tree under node has more than one mark
AtMostOneMark(node) ==
    IF node.type = "text" THEN ("marks" \in DOMAIN node => Len(node.marks) = 1)
    ELSE IF "content" \in DOMAIN node THEN \A k \in 1..Len(node.content) : AtMostOneMark(node.content[k])
    ELSE TRUE

C10_OneMark ==
    /\ \A k \in 1..Len(result) : AtMostOneMark(result[k])
    /\ pc = "done" => AtMostOneMark(doc[1])

\* a step of _parse_inline_formatting: for a match, at most one unmarked node
\* and then one node with the one mark of the alternative that matched first
\* at the leftmost position; at the end, unmarked nodes only
C10_Step ==
    ipc = "loop" =>
      /\ Len(result') >= Len(result)
      /\ SubSeq(result', 1, Len(result)) = result
      /\ LET new == SubSeq(result', Len(result) + 1, Len(result'))
             m == NextMatch(text, current_pos)
         IN  IF ipc' = "loop"
               THEN /\ m.alt \in 1..7
                    /\ Len(new) \in {1, 2}
                    /\ DOMAIN new[Len(new)] = {"type", "text", "marks"}
                    /\ Len(new[Len(new)].marks) = 1
                    /\ new[Len(new)].marks[1].type = AltMark[m.alt]
                    /\ Len(new) = 2 => DOMAIN new[1] = {"type", "text"}
               ELSE \A k \in 1..Len(new) : DOMAIN new[k] = {"type", "text"}

\* C10: _parse_inline_formatting emits for each matched token exactly one text
\* node with exactly one mark, that of the first alternative (link, autolink,
\* code, highlight, strike, bold, italic) matching at the leftmost position,
\* every other node it emits has no marks, and no text node of a converted
\* document has more than one mark.
C10_SingleMark == []C10_OneMark /\ [][C10_Step]_vars

\* '**x**' gave one bold node
C10_Witness ==
    /\ ipc = "done"
    /\ text = <<"*", "*", "x", "*", "*">>
    /\ result = <<[type |-> "text", text |-> <<"x">>, marks |-> <<[type |-> "bold"]>>]>>

\* a line of letters and blanks only
PlainLine(line) == \A k \in 1..Len(line) : line[k] \in {"a", "b", "x", "y", "z", " ", "\t"}

RECURSIVE PlainParagraphs(_, _)
\* one paragraph for each non-blank line from line k on, holding the trimmed line as one unmarked text
PlainParagraphs(ls, k) ==
    IF k > Len(ls) THEN <<>>
    ELSE (IF Strip(ls[k]) = <<>> THEN <<>>
          ELSE <<[type |-> "paragraph", content |-> <<[type |-> "text", text |-> Strip(ls[k])]>>]>>)
         \o PlainParagraphs(ls, k + 1)

\* C11: an input whose lines hold no Markdown syntax gives exactly one
\* paragraph per non-blank line, in order, each holding a single unmarked text
\* node whose text is the line with leading and trailing whitespace trimmed.
C11_PlainTextTrimmed ==
    pc = "done" /\ (\A k \in 1..Len(lines) : PlainLine(lines[k])) /\ (\E k \in 1..Len(lines) : Strip(lines[k]) # <<>>) =>
      doc[1].content = PlainParagraphs(lines, 1)

\* C12: when _parse_table returns no table for a run of '|' lines, the
\* dispatcher handles those lines as paragraphs: each of them gives a paragraph
\* node in the document.
C12_TableFallback ==
    pc = "done" /\ Len(lines) >= 1 /\ (\A k \in 1..Len(lines) : StartsWith(lines[k], <<"|">>))
      /\ _parse_table(lines, 0).table = NoneVal =>
      /\ Len(doc[1].content) = Len(lines)
      /\ \A k \in 1..Len(lines) :
            /\ doc[1].content[k].type = "paragraph"
            /\ doc[1].content[k].content # <<>>

\* the blocks convert_to_tiptap_json returns for each request's content
AppendBlocks ==
    << <<Paragraph(<<PlainNode(<<"x">>)>>)>>,
       <<Heading(1, <<PlainNode(<<"h">>)>>)>> >>

\* the handler works on the page the select returned
C13_FetchStep ==
    \A r \in Requests :
        req[r].state = "new" /\ req'[r].state = "converting" =>
            /\ req'[r].page = db_page
            /\ db_page # NoneVal
            /\ can_edit(db_page[1], req'[r].user)

\* the merge: the content list read, followed by the converted blocks
C13_MergeStep ==
    \A r \in Requests :
        req[r].state = "converting" /\ req'[r].state = "merged" =>
            LET old == req[r].page[1].content_json
                new == req'[r].page[1].content_json
            IN  /\ markdown_text = AppendContent[r]
                /\ doc = Some([type |-> "doc", content |-> AppendBlocks[r]])
                /\ new # NoneVal
                /\ IF old # NoneVal /\ old[1].content # <<>>
                     THEN /\ new[1].content = old[1].content \o AppendBlocks[r]
                          /\ SubSeq(new[1].content, 1, Len(old[1].content)) = old[1].content
                          /\ new[1].type = old[1].type
                     ELSE new[1] = doc[1]

\* the commit stores the merged content, and the handler returns the stored page
C13_CommitStep ==
    \A r \in Requests :
        req[r].state = "merged" /\ req'[r].state = "committed" =>
            /\ db_page'[1].content_json = req[r].page[1].content_json
            /\ req'[r].page = db_page'

\* C13: append is list concatenation: a successful append_page_content on a
\* page whose content list C (as the handler read it) is non-empty stores C
\* followed by the content of the converted text, every block of C unchanged
\* and in its position; on a page without content it stores exactly the
\* converted document.
C13_AppendConcatenates == [][C13_FetchStep /\ C13_MergeStep /\ C13_CommitStep]_vars

\* an append of "x" to a page of one block was committed
C13_Witness ==
    /\ req[1].state = "committed"
    /\ req[2].state = "new"
    /\ db_page[1].content_json[1].content = <<Paragraph(<<PlainNode(<<"p">>)>>), Paragraph(<<PlainNode(<<"x">>)>>)>>
    /\ db_page[1].version = 2

\* two conversions of the same text returned equal trees
C14_SameInputSameTree ==
    \A a, b \in 1..Len(returned) :
        returned[a][1] = returned[b][1] => returned[a][2] = returned[b][2]

\* the singleton is absent or the one instance, which has no attribute
C14_SingletonState == _document_processor \in {NoneVal, Some(DocumentProcessorService)}

\* a step of a conversion leaves the singleton as it is
C14_ConversionStep == pc \in {"call", "loop"} => _document_processor' = _document_processor

RECURSIVE NodeChars(_)
RECURSIVE NodesChars(_, _)
\* the characters of the text nodes of a node, in document order
NodeChars(n) ==
    IF "text" \in DOMAIN n THEN n.text
    ELSE IF "content" \in DOMAIN n THEN NodesChars(n.content, 1)
    ELSE <<>>

NodesChars(ns, k) == IF k > Len(ns) THEN <<>> ELSE NodeChars(ns[k]) \o NodesChars(ns, k + 1)

RECURSIVE SubseqFrom(_, _, _, _)
\* a from position ka on is a subsequence of b from position kb on
SubseqFrom(a, ka, b, kb) ==
    IF ka > Len(a) THEN TRUE
    ELSE IF kb > Len(b) THEN FALSE
    ELSE IF a[ka] = b[kb] THEN SubseqFrom(a, ka + 1, b, kb + 1)
    ELSE SubseqFrom(a, ka, b, kb + 1)

IsSubseq(a, b) == SubseqFrom(a, 1, b, 1)

\* the text of the returned tree, read in document order, is the source text
\* with characters left out: nothing appears before something that precedes it
C15_OrderAtReturn == pc = "done" => IsSubseq(NodesChars(doc[1].content, 1), markdown_text)

\* an iteration appends at most one block after the blocks already emitted,
\* and the block takes its text from the lines between the cursor (the
\* opening line, for a fence) and the new cursor
C15_Step ==
    pc = "loop" /\ pc' = "loop" =>
        /\ Len(content') \in {Len(content), Len(content) + 1}
        /\ SubSeq(content', 1, Len(content)) = content
        /\ i < i'
        /\ Len(content') = Len(content) + 1 =>
             LET from == IF FenceOpenBefore(lines, i) THEN OpenerBefore(lines, i) ELSE i
             IN  IsSubseq(NodeChars(content'[Len(content')]), Join(SubSeq(lines, from + 1, i'), Newline))

\* C15: source order is preserved: of two blocks of the top-level content the
\* earlier one was produced from lines that all precede the lines of the
\* later one, and so for the items of a list and the rows of a table; no
\* iteration emits a node for lines an earlier iteration consumed.
C15_SourceOrder == [](C15_OrderAtReturn) /\ [][C15_Step]_cvars

\* a bullet list of one item with a nested item, then an ordered list, were returned
C15_Witness ==
    /\ pc = "done"
    /\ Len(lines) = 3
    /\ Len(content) = 2
    /\ content[1].type = "bulletList"
    /\ Len(content[1].content[1].content) = 2
    /\ content[2].type = "orderedList"
    /\ NodesChars(content, 1) = <<"a", "b", "x">>

RECURSIVE ItemShape(_)
\* a listItem is [paragraph] or [paragraph, non-empty list of well-shaped items]
ItemShape(item) ==
    /\ item.type = "listItem"
    /\ Len(item.content) \in {1, 2}
    /\ item.content[1].type = "paragraph"
    /\ Len(item.content) = 2 =>
         /\ item.content[2].type \in {"bulletList", "orderedList"}
         /\ item.content[2].content # <<>>
         /\ \A k \in 1..Len(item.content[2].content) : ItemShape(item.content[2].content[k])

ItemsShape(items) == \A k \in 1..Len(items) : ItemShape(items[k])

\* C16: every listItem _parse_list_items produces has content [paragraph] or
\* [paragraph, list] with list a non-empty bulletList or orderedList: never
\* two nested lists, a list before the paragraph, or an empty nested list.
C16_ListItemShape ==
    /\ pc = "loop" /\ i = 0 =>
         \A k \in 0..(Len(lines) - 1) : \A t \in {"bullet", "ordered"} :
            ItemsShape(_parse_list_items(lines, k, t).items)
    /\ \A k \in 1..Len(content) :
         content[k].type \in {"bulletList", "orderedList"} =>
            content[k].content # <<>> /\ ItemsShape(content[k].content)

\* an item with a nested list, an item whose deeper next line is no list item, and a plain item
C16_Witness ==
    /\ pc = "done"
    /\ lines = << <<"-", " ", "a">>, <<" ", " ", "-", " ", "b">>, <<"-", " ", "a">> >>
    /\ Len(content) = 1
    /\ Len(content[1].content) = 2
    /\ Len(content[1].content[1].content) = 2
    /\ Len(content[1].content[2].content) = 1
    /\ _parse_list_items(<< <<"-", " ", "a">>, <<" ", " ", "z">> >>, 0, "bullet").items = <<ListItem(<<Paragraph(<<PlainNode(<<"a">>)>>)>>)>>

\* while a fence is open a line that starts with the marker and has further
\* text is buffered and the fence stays open
C17_Step ==
    /\ pc = "loop"
    /\ i < Len(lines)
    /\ current_code_block # NoneVal
    /\ StartsWith(lines[i + 1], Fence)
    /\ lines[i + 1] # Fence
    => /\ current_code_block' = Some(Append(current_code_block[1], lines[i + 1]))
       /\ content' = content

\* C17: while a code fence is open only a line that is exactly the fence
\* marker closes it; a line that begins with three backticks and has further
\* text is appended verbatim to the buffer and the fence stays open.
C17_OnlyExactMarkerCloses == [][C17_Step]_cvars

\* the number of '|' in a line
Pipes(line) == Cardinality({k \in 1..Len(line) : line[k] = "|"})

\* a row written between outer pipes that is not a separator row
DataRow(line) == StartsWith(line, <<"|">>) /\ EndsWith(line, <<"|">>) /\ Len(line) >= 2 /\ ~IsSeparatorRow(line)

\* C18: a data row is split on '|' and only the empty fields of the outer
\* pipes are discarded: an empty cell between two inner pipes is kept, so a
\* row written with k+1 pipes yields k cells.
C18_InnerEmptyCellsKept ==
    /\ pc = "done"
    /\ \A k \in 1..Len(lines) : DataRow(lines[k])
    /\ Len(content) = 1
    /\ content[1].type = "table"
    /\ Len(content[1].content) = Len(lines)
    => \A k \in 1..Len(lines) : Len(content[1].content[k].content) = Pipes(lines[k]) - 1

\* C19: a contiguous run of '|' lines that contains no separator line is not
\* emitted as a table node: the converter falls back to one paragraph per
\* line for those lines.
C19_NoSeparatorNoTable ==
    /\ pc = "done"
    /\ Len(lines) >= 1
    /\ \A k \in 1..Len(lines) : StartsWith(lines[k], <<"|">>) /\ ~IsSeparatorRow(lines[k])
    => /\ Len(doc[1].content) = Len(lines)
       /\ \A k \in 1..Len(lines) : doc[1].content[k].type = "paragraph"

\* the 0-based indices after s of the lines that end a list of kind t started
\* at line s: non-blank, at the base indent or less, and not an item of kind t
ListEnds(ls, s, t) ==
    {e \in (s + 1)..(Len(ls) - 1) :
        /\ Strip(ls[e + 1]) # <<>>
        /\ get_indent_level(ls[e + 1]) <= get_indent_level(ls[s + 1])
        /\ ~(get_indent_level(ls[e + 1]) = get_indent_level(ls[s + 1]) /\ is_list_item(ls[e + 1], t))}

\* the iteration of the dispatcher for a list line: the list is emitted and
\* the cursor is the index of the first line that ends the list
C20_Step ==
    pc = "loop" /\ i < Len(lines) /\ Branch(lines[i + 1], current_code_block) \in {"bullet", "ordered"} =>
        LET t == Branch(lines[i + 1], current_code_block)
            ends == ListEnds(lines, i, t)
        IN  /\ i < i'
            /\ _parse_list_items(lines, i, t).next = i'
            /\ content' = Append(content, ListNode(t, _parse_list_items(lines, i, t).items))
            /\ IF ends = {} THEN i' = Len(lines)
               ELSE /\ i' \in ends
                    /\ \A e \in ends : i' <= e
                    /\ pc' = "loop"

\* a bullet list directly followed by a numbered line at the same indent
\* yields a bulletList and then an orderedList
C20_BulletThenOrdered ==
    /\ pc = "done"
    /\ Len(lines) = 2
    /\ Branch(lines[1], NoneVal) = "bullet"
    /\ Branch(lines[2], NoneVal) = "ordered"
    => /\ Len(content) = 2
       /\ content[1].type = "bulletList"
       /\ content[2].type = "orderedList"

\* C20: when a top-level list started at index s ends because of a non-blank
\* line at the base indent or less that is not an item of the list's kind,
\* _parse_list_items returns that line's index, greater than s, the line is
\* not consumed by the list builder, and the dispatcher processes it next as
\* its own block.
C20_ListEndHandOff == []C20_BulletThenOrdered /\ [][C20_Step]_cvars

\* a bullet list with a nested item ended at a numbered line, which became an orderedList
C20_Witness ==
    /\ pc = "done"
    /\ lines = << <<"-", " ", "a">>, <<" ", " ", "-", " ", "b">>, <<"1", ".", " ", "x">> >>
    /\ ListEnds(lines, 0, "bullet") = {2}
    /\ Len(content) = 2
    /\ content[1].type = "bulletList"
    /\ content[2] = ListNode("ordered", <<ListItem(<<Paragraph(<<PlainNode(<<"x">>)>>)>>)>>)

\* the 0-based indices of the lines deeper than the line s that starts a list
\* of kind t, non-blank, and before every line that ends the list
DriftOrNested(ls, s, t) ==
    {d \in (s + 1)..(Len(ls) - 1) :
        /\ Strip(ls[d + 1]) # <<>>
        /\ get_indent_level(ls[d + 1]) > get_indent_level(ls[s + 1])
        /\ \A e \in ListEnds(ls, s, t) : d < e}

\* the 0-based indices in s..(e - 1) of the lines at the indent of line s that are items of kind t
BaseItems(ls, s, e, t) ==
    {k \in s..(e - 1) :
        /\ get_indent_level(ls[k + 1]) = get_indent_level(ls[s + 1])
        /\ is_list_item(ls[k + 1], t)}

\* the iteration of the dispatcher for a list line: the deeper lines are
\* passed, and every line with the marker at the base indent up to the new
\* cursor is an item of the one list node emitted
C21_Step ==
    pc = "loop" /\ i < Len(lines) /\ Branch(lines[i + 1], current_code_block) \in {"bullet", "ordered"} =>
        LET t == Branch(lines[i + 1], current_code_block)
        IN  /\ \A d \in DriftOrNested(lines, i, t) : d < i'
            /\ Len(content') = Len(content) + 1
            /\ content'[Len(content')].type = ListNode(t, <<>>).type
            /\ Len(content'[Len(content')].content) = Cardinality(BaseItems(lines, i, i', t))

\* C21: drift lines do not end a list: a non-blank line deeper than the base
\* indent that no nested call consumed is skipped without terminating the
\* list, so a later line at the base indent with the list's marker becomes a
\* further item of the same list node.
C21_DriftDoesNotEndList == [][C21_Step]_cvars

\* an item, a deeper line that is no list item, and a second item: one list of two items
C21_Witness ==
    /\ pc = "done"
    /\ lines = << <<"-", " ", "a">>, <<" ", " ", "z">>, <<"-", " ", "a">> >>
    /\ DriftOrNested(lines, 0, "bullet") = {1}
    /\ Len(content) = 1
    /\ content[1].type = "bulletList"
    /\ Len(content[1].content) = 2
    /\ Len(content[1].content[1].content) = 1

\* an iteration outside a fence emits a horizontalRule exactly for the three lines, and moves one line on
C22_Step ==
    pc = "loop" /\ i < Len(lines) /\ current_code_block = NoneVal =>
        LET emitted == /\ Len(content') = Len(content) + 1
                       /\ content'[Len(content')].type = "horizontalRule"
        IN  /\ emitted <=> lines[i + 1] \in {<<"-", "-", "-">>, <<"*", "*", "*">>, <<"_", "_", "_">>}
            /\ emitted => i' = i + 1

\* C22: outside a code fence a horizontalRule node is emitted for a line if
\* and only if the line is exactly '---', '***' or '___', with no surrounding
\* whitespace or other characters, and it consumes exactly that one line.
C22_RuleOnlyForExactLine == [][C22_Step]_cvars

\* the line begins with one or more digits immediately followed by '. ', within its first 4 characters
DigitsDotSpace(line) ==
    \E n \in 1..2 :
        /\ Len(line) >= n + 2
        /\ \A k \in 1..n : line[k] \in Digits
        /\ line[n + 1] = "."
        /\ line[n + 2] = " "

\* an iteration outside a fence emits an orderedList only for such a line, and
\* a paragraph for another line whose first character is a digit
C23_Step ==
    pc = "loop" /\ i < Len(lines) /\ current_code_block = NoneVal =>
        LET line == lines[i + 1]
            emitted(type) == /\ Len(content') = Len(content) + 1
                             /\ content'[Len(content')].type = type
        IN  /\ emitted("orderedList") => DigitsDotSpace(line)
            /\ line # <<>> /\ line[1] \in Digits /\ ~DigitsDotSpace(line) => emitted("paragraph")

\* C23: a line is dispatched to the ordered list builder only if it begins
\* with one or more digits immediately followed by '. ' within its first 4
\* characters; a line whose first character is a digit but whose '. ' is
\* preceded by a non-digit (as '1a. x') is treated as a paragraph.
C23_OrderedOnlyAfterDigits == [][C23_Step]_cvars

\* the delimiter of each mark that has one
Delimiter ==
    [bold |-> <<"*", "*">>, italic |-> <<"*">>, code |-> <<Backtick>>,
     highlight |-> <<"=", "=">>, strike |-> <<"~", "~">>]

\* a node written back: an unmarked node is its text, a link node is
\* [text](url), another marked node is its text between its delimiters
Wrapped(n) ==
    IF "marks" \notin DOMAIN n THEN n.text
    ELSE IF n.marks[1].type = "link"
      THEN <<"[">> \o n.text \o <<"]", "(">> \o n.marks[1].attrs.href \o <<")">>
    ELSE Delimiter[n.marks[1].type] \o n.text \o Delimiter[n.marks[1].type]

WrappedAll(nodes) == Concat([k \in 1..Len(nodes) |-> Wrapped(nodes[k])])

\* C24 as stated: the nodes _parse_inline_formatting returns have no empty
\* text, and re-wrapping each marked node in its delimiters, with the link
\* URL for link marks, and concatenating all nodes reproduces the input
\* exactly; the empty string yields the empty list.
C24_RoundTrip ==
    ipc = "done" =>
        /\ \A k \in 1..Len(result) : result[k].text # <<>>
        /\ WrappedAll(result) = text
        /\ text = <<>> => result = <<>>

\* a node written back, knowing that it came from a bare URL (alternative 2 of the pattern)
WrappedFrom(n, alt) == IF alt = 2 THEN n.text ELSE Wrapped(n)

\* a step of _parse_inline_formatting appends nodes after the nodes it has,
\* none with an empty text, that written back are the part of the input from
\* the position before the step to the position after it
C24_Step ==
    ipc = "loop" =>
        LET new == SubSeq(result', Len(result) + 1, Len(result'))
            m == NextMatch(text, current_pos)
            upto == IF ipc' = "loop" THEN current_pos' ELSE Len(text)
        IN  /\ SubSeq(result', 1, Len(result)) = result
            /\ \A k \in 1..Len(new) : new[k].text # <<>>
            /\ current_pos <= upto
            /\ Concat([k \in 1..Len(new) |-> IF k = Len(new) /\ ipc' = "loop" THEN WrappedFrom(new[k], m.alt) ELSE new[k].text])
                 = Slice(text, current_pos, upto)
            /\ ipc' = "done" => \A k \in 1..Len(new) : "marks" \notin DOMAIN new[k]

\* text without a match is returned unchanged as one unmarked node, the empty string as the empty list
C24_Unmatched ==
    ipc = "done" /\ NextMatch(text, 0).alt = 0 =>
        result = IF text = <<>> THEN <<>> ELSE <<PlainNode(text)>>

\* C24 amended: the nodes are in source order, none has an empty text, and
\* writing each node back reproduces the input exactly, where a link node
\* that came from a bare URL is written back as its text alone and every
\* other marked node in its delimiters (a link as [text](url)).
C24_TextPreserved == []C24_Unmatched /\ [][C24_Step]_vars

\* a letter and a bare www URL: an unmarked node and a link node whose href has the scheme added
C24_Witness ==
    /\ ipc = "done"
    /\ text = <<"x", "w", "w", "w", ".", "u">>
    /\ result = <<PlainNode(<<"x">>),
                  MarkedNode(<<"w", "w", "w", ".", "u">>, LinkMark(<<"h", "t", "t", "p", "s", ":", "/", "/", "w", "w", "w", ".", "u">>))>>

\* the letters lines are written with
LetterChars ==
    {"a", "b", "c", "d", "e", "f", "g", "h", "j", "p", "q", "s", "t", "u", "w", "x", "y", "z", "A", "B"}

\* the letters of a line
LineLetters(line) == {line[k] : k \in 1..Len(line)} \cap LetterChars

\* the characters of the text nodes of the returned document
DocChars == {NodesChars(doc[1].content, 1)[k] : k \in 1..Len(NodesChars(doc[1].content, 1))}

\* C25: no silent content loss: each non-blank source line that is neither a
\* separator line nor a fence marker line contributes its text to some node
\* of the returned document; no line is consumed while nothing is emitted
\* for it.
C25_NoContentLoss ==
    pc = "done" =>
        \A k \in 1..Len(lines) :
            /\ Strip(lines[k]) # <<>>
            /\ ~StartsWith(lines[k], Fence)
            /\ ~(StartsWith(lines[k], <<"|">>) /\ IsSeparatorRow(lines[k]))
            /\ LineLetters(lines[k]) # {}
            => LineLetters(lines[k]) \cap DocChars # {}

\* the blocks bs occur in the content list cs, next to each other and in order
HasBlocks(cs, bs) == \E k \in 0..(Len(cs) - Len(bs)) : SubSeq(cs, k + 1, k + Len(bs)) = bs

\* C26: concurrent appends are not lost: when two append_page_content
\* requests on the same page interleave at their await points, then after
\* both have committed the content of the page contains the converted blocks
\* of both requests and page.version has increased by 2.
C26_NoLostAppend ==
    (\A r \in Requests : req[r].state = "committed") =>
        /\ \A r \in Requests : HasBlocks(db_page[1].content_json[1].content, AppendBlocks[r])
        /\ db_page[1].version = 1 + Cardinality(Requests)

Reviewed(update_request) == update_request.status \in {"approved", "rejected"}

C27_Step ==
    \A k \in 1..Len(update_requests) :
        Reviewed(update_requests[k]) => update_requests'[k].status = update_requests[k].status

\* C27: once approve_update_request or reject_update_request has set the
\* status of an update request to approved or rejected, no later call changes
\* that status
C27_ReviewedIsTerminal == [][C27_Step]_vars

\* C28: no two rows of page_versions of the page carry the same version
\* number, so get_page_version matches at most one row
C28_VersionsUnique ==
    \A a, b \in 1..Len(page_versions) : a # b => page_versions[a].version # page_versions[b].version

\* the page author, the space owner or an admin
Privileged(page, user) == is_page_owner(page, user) \/ is_space_owner(user) \/ is_admin(user)

C29_Step ==
    (/\ db_page # NoneVal
     /\ db_page' # NoneVal
     /\ db_page[1].edit_mode = "approval"
     /\ db_page'[1].content_json # db_page[1].content_json)
    => \/ \E r \in Requests : /\ req[r].state = "merged"
                              /\ req'[r].state = "committed"
                              /\ Privileged(db_page[1], req[r].user)
       \/ req' = req /\ Privileged(db_page[1], current_user')

\* C29: the content_json of a page in approval mode changes only in a
\* request of the page author, the space owner or an admin (a direct write or
\* the approval of an update request), whatever operation is used
C29_ApprovalEnforced == [][C29_Step]_vars

\* C30: no two pages of the space have the same slug, so get_page_by_slug
\* matches at most one page
C30_SlugsUnique ==
    \A a, b \in 1..Len(space_pages) : a # b => space_pages[a].slug # space_pages[b].slug
====
